---- MODULE Spec2Model ----
(***************************************************************************)
(* A model of the bastet / panthera tool runner: the run configuration     *)
(* (BastetConfiguration), the tool roster (get_available_tools, Tool),     *)
(* the sequential runner (ToolRunner) and the result collection            *)
(* (ToolResults).                                                          *)
(***************************************************************************)
EXTENDS Integers, Sequences, FiniteSets, TLC

(***************************************************************************)
(* Bounds of the model.                                                    *)
(***************************************************************************)
\* ToolResults.record calls made on one ToolResults object
MaxCalls == 2
\* events of one ToolRunner call that are not a tool ending with exit code 0:
\* a non-zero exit code, an exception around the wait (the timeout is one), an
\* annotation or a ToolError streamed to the reporters
MaxEvents == 2
\* constructor and gather_tools calls made by one client of the Tool classes
MaxConstructions == 2
\* names in one list of names on the command line or in the configuration file
MaxNames == 1

(***************************************************************************)
(* Helpers on sequences.                                                   *)
(***************************************************************************)
Range(s) == {s[i] : i \in 1..Len(s)}

RECURSIVE SeqFilter(_, _)
\* the sub-sequence of s whose members are in the set keep
SeqFilter(s, keep) ==
    IF s = <<>> THEN <<>>
    ELSE (IF Head(s) \in keep THEN <<Head(s)>> ELSE <<>>) \o SeqFilter(Tail(s), keep)

RECURSIVE Flatten(_)
Flatten(ss) == IF ss = <<>> THEN <<>> ELSE Head(ss) \o Flatten(Tail(ss))

(***************************************************************************)
(* tools/tool.py: ToolDomain, Status                                       *)
(***************************************************************************)
\* enum.StrEnum members in definition order, by value
ToolDomain == <<"Format", "Lint", "Audit">>

\* enum.Enum members in definition order
Status == <<"Passed", "Fixed", "Warning", "Failed", "Error">>

\* _STATUS_ORDERING = {name: idx for idx, name in enumerate(Status)}
StatusOrdering(s) == (CHOOSE i \in 1..Len(Status) : Status[i] = s) - 1

\* Status.__lt__
StatusLt(a, b) == StatusOrdering(a) < StatusOrdering(b)

\* Status.__gt__
StatusGt(a, b) == StatusOrdering(a) > StatusOrdering(b)

\* Status.__ge__
StatusGe(a, b) == b = a \/ StatusGt(a, b)

(***************************************************************************)
(* tools/__init__.py and the Tool subclasses                               *)
(***************************************************************************)
get_available_tools ==
    <<"Reuse", "Ruff", "ISort", "Black", "MyPy", "Flake8", "PyLint", "PyDocStyle", "Bandit">>

ToolClasses == Range(get_available_tools)

\* Tool.domains() of every subclass
domains(cls) ==
    CASE cls \in {"Reuse", "Ruff", "ISort", "Black"} -> {"Format", "Lint"}
      [] cls \in {"MyPy", "Flake8", "PyLint", "PyDocStyle"} -> {"Lint"}
      [] cls = "Bandit" -> {"Audit"}

\* Tool.acceptable_exit_codes() and its overrides
acceptable_exit_codes(tool) ==
    CASE tool.cls \in {"Ruff", "MyPy", "Flake8"} -> {0, 1}
      [] tool.cls = "Reuse" -> IF tool.domain = "Lint" THEN {0, 1} ELSE {0}
      [] OTHER -> {0}

\* Tool.get_environment() of every subclass; the value of MYPYPATH is the
\* os.pathsep join of the python path, one opaque string here
get_environment(tool) ==
    IF tool.cls = "MyPy" THEN [k \in {"MYPYPATH"} |-> "python_path"] ELSE <<>>

\* An optional value: Python's None when given is FALSE
NoneValue == [given |-> FALSE, value |-> <<>>]
Some(v) == [given |-> TRUE, value |-> v]

\* Python truthiness of an optional list or string: None and the empty one are falsy
Truthy(opt) == opt.given /\ opt.value # <<>>

\* Tool.__init__ without the domain check
ToolInitNoCheck(cls, domain, id) ==
    [raised |-> "none", tool |-> [cls |-> cls, domain |-> domain, id |-> id]]

\* Tool.__init__: the new instance, or the exception raised
ToolInit(cls, domain, id) ==
    IF domain \notin domains(cls)
    THEN [raised |-> "InvalidDomainError", tool |-> NoneValue]
    ELSE [raised |-> "none", tool |-> [cls |-> cls, domain |-> domain, id |-> id]]

\* InvalidDomainError(ValueError), ToolError and its subclasses: the classes an
\* exception of the given class is an instance of
ExceptionBases(exc) ==
    CASE exc = "InvalidDomainError" -> {"InvalidDomainError", "ValueError", "Exception"}
      [] exc = "ProcessError" -> {"ProcessError", "CalledProcessError", "ToolError", "Exception"}
      [] exc = "OutputParsingError" -> {"OutputParsingError", "ToolError", "Exception"}
      [] exc = "ToolValueError" -> {"ToolValueError", "ToolError", "Exception"}
      [] OTHER -> {exc, "Exception"}

(***************************************************************************)
(* str.lower() on the names that appear on the command line, in the        *)
(* configuration file and as class names.                                  *)
(***************************************************************************)
Lower(name) ==
    CASE name \in {"Format", "FORMAT", "format"} -> "format"
      [] name \in {"Lint", "LINT", "lint"} -> "lint"
      [] name \in {"Audit", "AUDIT", "audit"} -> "audit"
      [] name \in {"Reuse", "reuse"} -> "reuse"
      [] name \in {"Ruff", "ruff", "RUFF"} -> "ruff"
      [] name \in {"ISort", "isort"} -> "isort"
      [] name \in {"Black", "black"} -> "black"
      [] name \in {"MyPy", "mypy", "Mypy"} -> "mypy"
      [] name \in {"Flake8", "flake8"} -> "flake8"
      [] name \in {"PyLint", "pylint"} -> "pylint"
      [] name \in {"PyDocStyle", "pydocstyle"} -> "pydocstyle"
      [] name \in {"Bandit", "bandit"} -> "bandit"
      [] name \in {"GitHub", "github", "GITHUB"} -> "github"
      [] name \in {"Console", "console"} -> "console"
      [] name \in {"Note", "note", "NOTE"} -> "note"
      [] OTHER -> name

(***************************************************************************)
(* bastet/config.py: BastetConfiguration                                   *)
(***************************************************************************)
\* BastetConfiguration._tools_or_domains
RECURSIVE _tools_or_domains(_)
_tools_or_domains(items) ==
    IF items = <<>> THEN [domains |-> {}, tools |-> {}]
    ELSE LET rest == _tools_or_domains(Tail(items))
             item == Lower(Head(items))
             _domains == {d \in Range(ToolDomain) : Lower(d) = item}
         IN IF _domains # {}
            THEN [domains |-> rest.domains \cup _domains, tools |-> rest.tools]
            ELSE [domains |-> rest.domains, tools |-> rest.tools \cup {item}]

\* BastetConfiguration._config_list: the list under the key, or the default
\* when the key is not set (or is not a list)
_config_list(config_value, default) ==
    IF ~config_value.given THEN default ELSE config_value.value

\* BastetConfiguration.__init__, "Determine what domains and tools are not
\* to be run": the merged list of names
Disabled(args_disable, args_skip, config_disable) ==
    (IF Truthy(args_disable) THEN args_disable.value ELSE _config_list(config_disable, <<>>))
        \o (IF Truthy(args_skip) THEN args_skip.value ELSE <<>>)

\* the directories of the model, as absolute paths: /, /proj, /proj/src, /other
ProjectDir == <<"proj">>

\* the directories that hold a .git or .hg directory
RepositoryDirs == {ProjectDir}

\* pathlib.Path.parent (the parent of the root is the root)
Parent(path) == IF path = <<>> THEN <<>> ELSE SubSeq(path, 1, Len(path) - 1)

\* whether <path>/pyproject.toml is a file
HasPyproject(path, file) == path = ProjectDir /\ file.exists

\* _find_pyproject, searching upwards from the directory
RECURSIVE _find_pyproject(_, _)
_find_pyproject(current_dir, file) ==
    IF HasPyproject(current_dir, file) THEN Some(current_dir)
    ELSE IF current_dir \in RepositoryDirs THEN Some(current_dir)
    ELSE IF current_dir = Parent(current_dir) THEN NoneValue
    ELSE _find_pyproject(Parent(current_dir), file)

\* BastetConfiguration.__init__ line 69-74: the root of the project
RootDir(args_root, cwd_, file) ==
    IF args_root.given
    THEN cwd_
    ELSE LET found == _find_pyproject(cwd_, file)
         IN IF found.given THEN found.value ELSE cwd_

\* _load_config: the [tool.bastet] table of <folder>/pyproject.toml, its keys
\* 'disable' and 'reporters' each a list or missing (None); no key at all
\* when the file is missing
_load_config(folder, file) ==
    IF HasPyproject(folder, file)
    THEN [disable |-> file.disable, reporters |-> file.reporters]
    ELSE [disable |-> NoneValue, reporters |-> NoneValue]

\* reporting/__init__.py: the reporters dictionary, name to class
ReporterClasses ==
    [name \in {"console", "github", "note"} |->
        CASE name = "console" -> "ConsoleReporter"
          [] name = "github" -> "GitHubReporter"
          [] name = "note" -> "AnnotationReporter"]

\* BastetConfiguration.__init__, "Config the list of reporting engines to
\* use": the names to go through
ReporterNames(args_reporter, config_reporters) ==
    IF Truthy(args_reporter) THEN args_reporter.value
    ELSE _config_list(config_reporters, <<"note">>)

RECURSIVE AddReporters(_, _)
\* the loop over the names, from the state so far: a name whose lowercase
\* form is no key is logged and skipped, any other name is looked up as it is
\* written, which raises KeyError when the name itself is no key
AddReporters(names, sofar) ==
    IF names = <<>> THEN sofar
    ELSE LET reporter_ == Head(names)
         IN IF Lower(reporter_) \notin DOMAIN ReporterClasses
            THEN AddReporters(Tail(names),
                     [sofar EXCEPT !.log = Append(@, <<"Unknown reporter class", reporter_>>)])
            ELSE IF reporter_ \notin DOMAIN ReporterClasses
            THEN [sofar EXCEPT !.raised = "KeyError"]
            ELSE AddReporters(Tail(names),
                     [sofar EXCEPT !.reporters = @ \cup {ReporterClasses[reporter_]}])

\* BastetConfiguration.domains
BastetDomains(skip_domains_) ==
    SeqFilter(ToolDomain, Range(ToolDomain) \ skip_domains_)

(***************************************************************************)
(* runner.py: ToolRunner.gather_tools                                      *)
(***************************************************************************)
\* the selection of gather_tools in the opposite order
GatherClassesReversed(domain, skip_tools_) ==
    LET sel == SeqFilter(get_available_tools,
                   {c \in ToolClasses : Lower(c) \notin skip_tools_ /\ domain \in domains(c)})
    IN [i \in 1..Len(sel) |-> sel[Len(sel) + 1 - i]]

\* the selection of gather_tools without the skip_tools test
GatherClassesNoSkip(domain, skip_tools_) ==
    SeqFilter(get_available_tools, {c \in ToolClasses : domain \in domains(c)})

\* the classes selected for the domain, in the order of get_available_tools()
GatherClasses(domain, skip_tools_) ==
    SeqFilter(get_available_tools,
              {c \in ToolClasses : Lower(c) \notin skip_tools_ /\ domain \in domains(c)})

\* gather_tools: one Tool.__init__ per selected class; first_id is the identity
\* of the first instance created.  The result is the list of instances, or the
\* exception a constructor raised.
gather_tools(domain, skip_tools_, first_id) ==
    LET classes == GatherClasses(domain, skip_tools_)
        made == [i \in 1..Len(classes) |-> ToolInit(classes[i], domain, first_id + i - 1)]
    IN IF \E i \in 1..Len(made) : made[i].raised # "none"
       THEN [raised |-> made[CHOOSE i \in 1..Len(made) :
                                /\ made[i].raised # "none"
                                /\ \A j \in 1..(i - 1) : made[j].raised = "none"].raised,
             tools |-> <<>>]
       ELSE [raised |-> "none", tools |-> [i \in 1..Len(made) |-> made[i].tool]]

(***************************************************************************)
(* tools/tool.py: ToolResults                                              *)
(***************************************************************************)
\* ToolResults.__init__
NewToolResults == [success |-> TRUE, annotations |-> <<>>, exceptions |-> <<>>, results |-> <<>>]

\* collections.Counter over the statuses of the annotations
Counter(annotations) ==
    [s \in {annotations[i].status : i \in 1..Len(annotations)} |->
        Cardinality({i \in 1..Len(annotations) : annotations[i].status = s})]

\* max() over the keys of the counter, by Status.__gt__
MaxStatus(levels) ==
    CHOOSE s \in DOMAIN levels : \A t \in DOMAIN levels : ~StatusGt(t, s)

\* ProcessError(exit_code, tool.get_command())
ProcessError(exit_code, tool) ==
    [type |-> "ProcessError", returncode |-> exit_code, cmd |-> <<tool.cls, tool.domain>>]

\* ToolResults.record, line 214-215: the exception list after the exit code check
RecordExceptions(tool, exceptions, exit_code) ==
    IF exit_code \notin acceptable_exit_codes(tool)
    THEN Append(exceptions, ProcessError(exit_code, tool))
    ELSE exceptions

\* ToolResults.record, line 219-224: the status of the tool run
RecordStatus(annotations, exceptions) ==
    IF exceptions # <<>> THEN "Error"
    ELSE IF annotations # <<>> THEN MaxStatus(Counter(annotations))
    ELSE "Passed"

\* a list replaced instead of extended
ExtendDropping(old, new) == new

\* ToolResults.record, line 227-228: list.extend
Extend(old, new) == old \o new

\* ToolResults.record: the whole method, on the ToolResults value rs
record(rs, tool, annotations, exceptions, exit_code) ==
    LET excs == RecordExceptions(tool, exceptions, exit_code)
        annotation_levels == Counter(annotations)
        status == RecordStatus(annotations, excs)
    IN [success |-> rs.success /\ StatusLt(status, "Failed"),
        annotations |-> Extend(rs.annotations, annotations),
        exceptions |-> Extend(rs.exceptions, excs),
        results |-> (tool :> [success |-> status, exit_code |-> exit_code,
                              annotation_counts |-> annotation_levels]) @@ rs.results]

(***************************************************************************)
(* The state.                                                              *)
(***************************************************************************)
VARIABLES
    pc,            \* the position of the program
    args,          \* the parsed command line: root, disable, skip
    cwd,           \* the current working directory
    config_file,   \* <project>/pyproject.toml: whether it exists, its 'disable' list
    root_dir,      \* BastetConfiguration: the project root chosen
    disabled,      \* BastetConfiguration.__init__: the merged list of names
    skip_tools,    \* BastetConfiguration.skip_tools
    skip_domains,  \* BastetConfiguration.skip_domains
    os_environ,    \* os.environ of the program
    run_domains,   \* ToolRunner.__call__: the domains argument
    d_idx,         \* ToolRunner.__call__: index of the current domain
    tools,         \* ToolRunner.__call__: the list gather_tools returned
    t_idx,         \* ToolRunner.__call__: index of the current tool
    instances,     \* every Tool instance constructed so far
    procs,         \* every subprocess created so far, in creation order, each
                   \* with the output items its tool's streams produced
    reporter,      \* ToolRunner.run: the report instance of the current tool
    results,       \* the ToolResults object
    calls,         \* the arguments of every ToolResults.record call, in call order
    raised,        \* the exception that left the program, "none" if none did
    reporters,     \* BastetConfiguration.reporters
    log,           \* the warnings the logger received
    _CWD,          \* Annotation._CWD, the project root of the annotations
    created,       \* the Annotation objects constructed so far, in order
    issues,        \* GitHubReporter.summarise: the list made of group_issues
    stdout,        \* the text written to sys.stdout, item by item
    fs,            \* the file system: the tree scanned and its ignore files
    gatherer,      \* the PathGatherer object and the position of its scan
    data,          \* the StreamReader of a tool's output: the lines not read yet
    parser,        \* process_results: the tool and the local variables of the generator
    yielded        \* process_results: the items yielded so far

vars == <<pc, args, cwd, config_file, root_dir, disabled, skip_tools, skip_domains,
          os_environ, run_domains, d_idx, tools, t_idx, instances, procs, reporter,
          results, calls, raised, reporters, log, _CWD, created, issues, stdout,
          fs, gatherer, data, parser, yielded>>

config_vars == <<args, cwd, config_file, root_dir, disabled, skip_tools, skip_domains>>
loop_vars == <<run_domains, d_idx, tools, t_idx>>

NoArgs == [root |-> NoneValue, disable |-> NoneValue, skip |-> NoneValue,
           reporter |-> NoneValue]
NoConfigFile == [exists |-> FALSE, disable |-> NoneValue, reporters |-> NoneValue]
NewReporter == [annotations |-> <<>>, exceptions |-> <<>>]

\* the variables of the parts of the program that a specification leaves alone
reporter_vars == <<reporters, log>>
annotation_vars == <<_CWD, created>>
report_vars == <<issues, stdout>>
gather_vars == <<fs, gatherer>>
parse_vars == <<data, parser, yielded>>
aux_vars == <<reporter_vars, annotation_vars, report_vars, gather_vars, parse_vars>>
runner_vars == <<config_vars, os_environ, loop_vars, instances, procs, reporter, results>>

\* nothing configured, annotated, reported, scanned or parsed yet
AuxInit ==
    /\ reporters = {}
    /\ log = <<>>
    /\ _CWD = ProjectDir
    /\ created = <<>>
    /\ issues = <<>>
    /\ stdout = <<>>
    /\ fs = <<>>
    /\ gatherer = <<>>
    /\ data = <<>>
    /\ parser = <<>>
    /\ yielded = <<>>

(***************************************************************************)
(* ToolRunner: one call of the runner, step by step.                       *)
(***************************************************************************)
\* the environments the program is called in: without and with a MYPYPATH
PlainEnviron == [k \in {"PATH"} |-> "/usr/bin"]
MyPyEnviron == [k \in {"PATH", "MYPYPATH"} |-> IF k = "PATH" THEN "/usr/bin" ELSE "/opt/stubs"]

\* what the runner is started with: the merged list of names to skip and the
\* environment
RunnerScenarios ==
    { [disabled |-> <<>>, environ |-> PlainEnviron],
      [disabled |-> <<"Lint">>, environ |-> MyPyEnviron],
      [disabled |-> <<"format", "ruff">>, environ |-> MyPyEnviron],
      [disabled |-> <<"AUDIT", "MyPy", "reuse", "isort">>, environ |-> PlainEnviron],
      [disabled |-> <<"Format", "lint", "audit">>, environ |-> MyPyEnviron] }

RunnerDisabled == {s.disabled : s \in RunnerScenarios}

\* the exit codes of a tool that ends by itself
ExitCodes == {0, 1}

\* process.returncode after kill() and wait(): the negated signal number
KillReturnCodes == {-9}

\* the annotations a tool's output is parsed into, and the parse errors
StreamedAnnotations == {[status |-> s, code |-> "E1"] : s \in {"Failed"}}
StreamedExceptions == {[type |-> "OutputParsingError"]}

\* exceptions asyncio.wait_for(process.wait(), timeout) ends with
WaitExceptions == {"TimeoutError", "OSError"}

\* ToolRunner.run line 97-98: the environment of the subprocess
SubprocessEnv(tool_env, environ) ==
    [k \in DOMAIN tool_env \cup DOMAIN environ |->
        IF k \in DOMAIN environ THEN environ[k] ELSE tool_env[k]]

\* a handler that re-raises every exception
ReraisedAlways(exc) == TRUE

\* ToolRunner.run line 115-127: whether the exception caught around the wait
\* leaves run (the handler of TimeoutError ends normally, the other re-raises)
Reraised(exc) == exc # "TimeoutError"

\* ToolRunner.run line 129-130
ReturnCode(returncode) == IF returncode.given THEN returncode.value ELSE 1

CurrentTool == tools[t_idx]
LastProc == procs[Len(procs)]
Alive(p) == p.state \in {"running", "killed"}

\* the events so far that are not a tool ending with exit code 0
Events ==
    Cardinality({i \in 1..Len(procs) :
        \/ procs[i].caught # "none"
        \/ (procs[i].caught = "none" /\ procs[i].returncode.given
              /\ procs[i].returncode.value # 0)})
    + Len(results.annotations) + Len(reporter.annotations) + Len(reporter.exceptions)
    + Cardinality({i \in 1..Len(results.exceptions) :
                      results.exceptions[i].type # "ProcessError"})

Init ==
    /\ pc = "start"
    /\ args = NoArgs
    /\ cwd = <<"proj">>
    /\ config_file = NoConfigFile
    /\ root_dir = <<"proj">>
    /\ \E s \in RunnerScenarios :
          /\ disabled = s.disabled
          /\ os_environ = s.environ
    /\ skip_tools = _tools_or_domains(disabled).tools
    /\ skip_domains = _tools_or_domains(disabled).domains
    /\ run_domains = <<>>
    /\ d_idx = 0
    /\ tools = <<>>
    /\ t_idx = 0
    /\ instances = {}
    /\ procs = <<>>
    /\ reporter = NewReporter
    /\ results = NewToolResults
    /\ calls = <<>>
    /\ raised = "none"
    /\ AuxInit

\* __call__ line 45-51, called as runner(config.domains)
Call ==
    /\ pc = "start"
    /\ run_domains' = BastetDomains(skip_domains)
    /\ d_idx' = 1
    /\ results' = NewToolResults
    /\ pc' = "domain"
    /\ UNCHANGED <<config_vars, os_environ, tools, t_idx, instances, procs, reporter,
                   calls, raised>>
    /\ UNCHANGED aux_vars

\* __call__ line 52-53: the next domain, and its tools gathered
GatherTools ==
    /\ pc = "domain"
    /\ d_idx <= Len(run_domains)
    /\ LET g == gather_tools(run_domains[d_idx], skip_tools, Cardinality(instances) + 1)
       IN IF g.raised # "none"
          THEN /\ raised' = g.raised
               /\ pc' = "raised"
               /\ UNCHANGED <<tools, t_idx, instances>>
          ELSE /\ tools' = g.tools
               /\ t_idx' = 1
               /\ instances' = instances \cup Range(g.tools)
               /\ pc' = "tool"
               /\ UNCHANGED raised
    /\ UNCHANGED <<config_vars, os_environ, run_domains, d_idx, procs, reporter,
                   results, calls>>
    /\ UNCHANGED aux_vars

\* __call__ line 55: the tools of the domain are exhausted
NextDomain ==
    /\ pc = "tool"
    /\ t_idx > Len(tools)
    /\ d_idx' = d_idx + 1
    /\ pc' = "domain"
    /\ UNCHANGED <<config_vars, os_environ, run_domains, tools, t_idx, instances, procs,
                   reporter, results, calls, raised>>
    /\ UNCHANGED aux_vars

\* run line 92-113: the report instance, the environment, the subprocess created
\* and the report streams started
Spawn ==
    /\ pc = "tool"
    /\ t_idx <= Len(tools)
    /\ reporter' = NewReporter
    /\ procs' = Append(procs,
           [tool |-> CurrentTool,
            env |-> SubprocessEnv(get_environment(CurrentTool), os_environ),
            state |-> "running",
            returncode |-> NoneValue,
            caught |-> "none",
            streamed |-> <<>>])
    /\ pc' = "waiting"
    /\ UNCHANGED <<config_vars, os_environ, loop_vars, instances, results, calls, raised>>
    /\ UNCHANGED aux_vars

\* the report streams: the tool's output parsed into an annotation
StreamAnnotation(a) ==
    /\ pc = "waiting"
    /\ Events < MaxEvents
    /\ reporter' = [reporter EXCEPT !.annotations = Append(@, a)]
    /\ procs' = [procs EXCEPT ![Len(procs)].streamed = Append(@, a)]
    /\ UNCHANGED <<pc, config_vars, os_environ, loop_vars, instances, results, calls, raised>>
    /\ UNCHANGED aux_vars

\* the report streams: output the tool could not parse
StreamException(e) ==
    /\ pc = "waiting"
    /\ Events < MaxEvents
    /\ reporter' = [reporter EXCEPT !.exceptions = Append(@, e)]
    /\ procs' = [procs EXCEPT ![Len(procs)].streamed = Append(@, e)]
    /\ UNCHANGED <<pc, config_vars, os_environ, loop_vars, instances, results, calls, raised>>
    /\ UNCHANGED aux_vars

\* run line 116: the subprocess ends within the timeout and wait() returns
ProcessExit(code) ==
    /\ pc = "waiting"
    /\ code # 0 => Events < MaxEvents
    /\ procs' = [procs EXCEPT ![Len(procs)].state = "reaped",
                              ![Len(procs)].returncode = Some(code)]
    /\ pc' = "return"
    /\ UNCHANGED <<config_vars, os_environ, loop_vars, instances, reporter, results,
                   calls, raised>>
    /\ UNCHANGED aux_vars

\* run line 116-118 and 124-125: the wait ends with an exception (TimeoutError
\* when the timeout elapses first); either handler kills the subprocess
WaitRaises(exc) ==
    /\ pc = "waiting"
    /\ Events < MaxEvents
    /\ procs' = [procs EXCEPT ![Len(procs)].state = "killed",
                              ![Len(procs)].caught = exc]
    /\ pc' = "killed"
    /\ UNCHANGED <<config_vars, os_environ, loop_vars, instances, reporter, results,
                   calls, raised>>
    /\ UNCHANGED aux_vars

\* run line 122 and 126-127: the killed subprocess is awaited; the handler ends
AwaitKilled(code) ==
    /\ pc = "killed"
    /\ procs' = [procs EXCEPT ![Len(procs)].state = "reaped",
                              ![Len(procs)].returncode = Some(code)]
    /\ IF Reraised(LastProc.caught)
       THEN /\ raised' = LastProc.caught
            /\ pc' = "raised"
       ELSE /\ pc' = "return"
            /\ UNCHANGED raised
    /\ UNCHANGED <<config_vars, os_environ, loop_vars, instances, reporter, results, calls>>
    /\ UNCHANGED aux_vars

\* run line 129-132 and __call__ line 56-57: run returns and its result is recorded
Record ==
    /\ pc = "return"
    /\ LET exit_code == ReturnCode(LastProc.returncode)
       IN /\ results' = record(results, CurrentTool, reporter.annotations,
                               reporter.exceptions, exit_code)
          /\ calls' = Append(calls, [tool |-> CurrentTool,
                                     annotations |-> reporter.annotations,
                                     exceptions |-> reporter.exceptions,
                                     exit_code |-> exit_code])
    /\ reporter' = NewReporter
    /\ t_idx' = t_idx + 1
    /\ pc' = "tool"
    /\ UNCHANGED <<config_vars, os_environ, run_domains, d_idx, tools, instances, procs,
                   raised>>
    /\ UNCHANGED aux_vars

\* __call__ line 59-61: every domain is done
Summarise ==
    /\ pc = "domain"
    /\ d_idx > Len(run_domains)
    /\ pc' = "done"
    /\ UNCHANGED <<config_vars, os_environ, loop_vars, instances, procs, reporter,
                   results, calls, raised>>
    /\ UNCHANGED aux_vars

Next ==
    \/ Call
    \/ GatherTools
    \/ NextDomain
    \/ Spawn
    \/ \E a \in StreamedAnnotations : StreamAnnotation(a)
    \/ \E e \in StreamedExceptions : StreamException(e)
    \/ \E code \in ExitCodes : ProcessExit(code)
    \/ \E exc \in WaitExceptions : WaitRaises(exc)
    \/ \E code \in KillReturnCodes : AwaitKilled(code)
    \/ Record
    \/ Summarise

Spec == Init /\ [][Next]_vars

(***************************************************************************)
(* BastetConfiguration(logger, args): the configuration built from the     *)
(* command line and the configuration file.                                *)
(***************************************************************************)
\* the names given on the command line and in the configuration file
CliNames == {"Lint", "format", "MyPy", "ruff"}

NameLists == UNION {[1..n -> CliNames] : n \in 0..MaxNames}

\* the value of a ZERO_OR_MORE option: None when absent, else the list
NameOptions == {NoneValue} \cup {Some(l) : l \in NameLists}

\* the value of --root: None when absent
RootOptions == {NoneValue, Some(ProjectDir), Some(<<"other">>)}

WorkDirs == {ProjectDir, <<"proj", "src">>, <<"other">>}

\* the values of --reporter: argparse accepts only the keys of the reporters
\* dictionary, as they are written there
ReporterOptions ==
    {NoneValue, Some(<<>>), Some(<<"github">>), Some(<<"console", "note">>)}

\* the values of the 'reporters' key of the configuration file
ReporterConfigs ==
    {Some(<<>>), Some(<<"note">>), Some(<<"GitHub">>), Some(<<"junk", "console">>),
     Some(<<"console", "Note", "github">>)}

ConfigFiles ==
    {NoConfigFile}
        \cup {[exists |-> TRUE, disable |-> d, reporters |-> NoneValue] : d \in NameOptions}
        \cup {[exists |-> TRUE, disable |-> NoneValue, reporters |-> r] : r \in ReporterConfigs}

InitConfig ==
    /\ pc = "args"
    /\ args \in [root : RootOptions, disable : NameOptions, skip : NameOptions,
                 reporter : ReporterOptions]
    /\ cwd \in WorkDirs
    /\ config_file \in ConfigFiles
    /\ root_dir = <<>>
    /\ disabled = <<>>
    /\ skip_tools = {}
    /\ skip_domains = {}
    /\ os_environ = <<>>
    /\ run_domains = <<>>
    /\ d_idx = 0
    /\ tools = <<>>
    /\ t_idx = 0
    /\ instances = {}
    /\ procs = <<>>
    /\ reporter = NewReporter
    /\ results = NewToolResults
    /\ calls = <<>>
    /\ raised = "none"
    /\ AuxInit

\* BastetConfiguration.__init__ up to the skip lists; the folders are gathered
\* by a PathGatherer, which has a specification of its own
Configure ==
    /\ pc = "args"
    /\ LET root == RootDir(args.root, cwd, config_file)
           config == _load_config(root, config_file)
           added == AddReporters(ReporterNames(args.reporter, config.reporters),
                                 [raised |-> "none", reporters |-> {}, log |-> <<>>])
           names == Disabled(args.disable, args.skip, config.disable)
       IN /\ root_dir' = root
          /\ reporters' = added.reporters
          /\ log' = added.log
          /\ raised' = added.raised
          /\ IF added.raised = "none"
             THEN /\ disabled' = names
                  /\ skip_domains' = _tools_or_domains(names).domains
                  /\ skip_tools' = _tools_or_domains(names).tools
                  /\ pc' = "configured"
             ELSE /\ UNCHANGED <<disabled, skip_domains, skip_tools>>
                  /\ pc' = "raised"
    /\ UNCHANGED <<args, cwd, config_file, os_environ, loop_vars, instances, procs,
                   reporter, results, calls>>
    /\ UNCHANGED <<annotation_vars, report_vars, gather_vars, parse_vars>>

NextConfig == Configure

SpecConfig == InitConfig /\ [][NextConfig]_vars

(***************************************************************************)
(* ToolResults: record called any number of times on one object.           *)
(***************************************************************************)
\* the tools recorded: one class in both of its domains
RecordTools == {<<"Reuse", "Format">>, <<"Reuse", "Lint">>}

Note(status, code) == [status |-> status, code |-> code]

\* the annotation lists of a tool run
AnnotationLists ==
    { <<>>,
      <<Note("Warning", "W1")>>,
      <<Note("Failed", "F1")>>,
      <<Note("Passed", "P1"), Note("Fixed", "X1")>>,
      <<Note("Error", "E1"), Note("Warning", "W2")>> }

\* the ToolError lists of a tool run
ExceptionLists == {<<>>, <<[type |-> "OutputParsingError"]>>}

\* the exit codes of a tool run
RecordExitCodes == {0, 1, 2}

InitRecord ==
    /\ pc = "results"
    /\ args = NoArgs
    /\ cwd = ProjectDir
    /\ config_file = NoConfigFile
    /\ root_dir = ProjectDir
    /\ disabled = <<>>
    /\ skip_tools = {}
    /\ skip_domains = {}
    /\ os_environ = <<>>
    /\ run_domains = <<>>
    /\ d_idx = 0
    /\ tools = <<>>
    /\ t_idx = 0
    /\ instances = {}
    /\ procs = <<>>
    /\ reporter = NewReporter
    /\ results = NewToolResults
    /\ calls = <<>>
    /\ raised = "none"
    /\ AuxInit

\* results.record(tool, annotations, exceptions, exit_code) on a tool instance
\* made for the call
RecordCall(cls, domain, annotations, exceptions, exit_code) ==
    /\ pc = "results"
    /\ Len(calls) < MaxCalls
    /\ LET tool == ToolInit(cls, domain, Cardinality(instances) + 1).tool
       IN /\ instances' = instances \cup {tool}
          /\ results' = record(results, tool, annotations, exceptions, exit_code)
          /\ calls' = Append(calls, [tool |-> tool,
                                     annotations |-> annotations,
                                     exceptions |-> exceptions,
                                     exit_code |-> exit_code])
    /\ UNCHANGED <<pc, config_vars, os_environ, loop_vars, procs, reporter, raised>>
    /\ UNCHANGED aux_vars

NextRecord ==
    \E t \in RecordTools, a \in AnnotationLists, e \in ExceptionLists, c \in RecordExitCodes :
        RecordCall(t[1], t[2], a, e, c)

SpecRecord == InitRecord /\ [][NextRecord]_vars

(***************************************************************************)
(* Tool: instances made by the constructor and by gather_tools.            *)
(***************************************************************************)
InitTool ==
    /\ pc = "tools"
    /\ args = NoArgs
    /\ cwd = ProjectDir
    /\ config_file = NoConfigFile
    /\ root_dir = ProjectDir
    /\ disabled \in RunnerDisabled
    /\ skip_tools = _tools_or_domains(disabled).tools
    /\ skip_domains = _tools_or_domains(disabled).domains
    /\ os_environ = <<>>
    /\ run_domains = <<>>
    /\ d_idx = 0
    /\ tools = <<>>
    /\ t_idx = 0
    /\ instances = {}
    /\ procs = <<>>
    /\ reporter = NewReporter
    /\ results = NewToolResults
    /\ calls = <<>>
    /\ raised = "none"
    /\ AuxInit

\* cls(domain, paths)
ToolNew(cls, domain) ==
    /\ pc = "tools"
    /\ Len(calls) < MaxConstructions
    /\ LET made == ToolInit(cls, domain, Cardinality(instances) + 1)
       IN /\ raised' = made.raised
          /\ instances' = IF made.raised = "none" THEN instances \cup {made.tool}
                                                  ELSE instances
    /\ calls' = Append(calls, [op |-> "Tool", cls |-> cls, domain |-> domain,
                               before |-> instances])
    /\ UNCHANGED <<pc, config_vars, os_environ, loop_vars, procs, reporter, results>>
    /\ UNCHANGED aux_vars

\* ToolRunner.gather_tools(domain, config)
GatherToolsCall(domain) ==
    /\ pc = "tools"
    /\ Len(calls) < MaxConstructions
    /\ LET g == gather_tools(domain, skip_tools, Cardinality(instances) + 1)
       IN /\ raised' = g.raised
          /\ tools' = g.tools
          /\ instances' = instances \cup Range(g.tools)
    /\ calls' = Append(calls, [op |-> "gather_tools", cls |-> "", domain |-> domain,
                               before |-> instances])
    /\ UNCHANGED <<pc, config_vars, os_environ, run_domains, d_idx, t_idx, procs,
                   reporter, results>>
    /\ UNCHANGED aux_vars

NextTool ==
    \/ \E cls \in ToolClasses, domain \in Range(ToolDomain) : ToolNew(cls, domain)
    \/ \E domain \in Range(ToolDomain) : GatherToolsCall(domain)

SpecTool == InitTool /\ [][NextTool]_vars

(***************************************************************************)
(* Properties of the runner (Spec).                                        *)
(***************************************************************************)
IndexIn(seq, x) == CHOOSE i \in 1..Len(seq) : seq[i] = x
Pair(tool) == <<tool.cls, tool.domain>>
RanPairs == {Pair(procs[i].tool) : i \in 1..Len(procs)}

\* the (class, domain) pairs the configuration selects
SelectedPairs ==
    {p \in ToolClasses \X Range(run_domains) :
        p[2] \in domains(p[1]) /\ Lower(p[1]) \notin skip_tools}

\* C1: tools run one at a time: at most one subprocess is alive, a subprocess
\* is created only when the result of every earlier one is recorded, and the
\* subprocesses are created in the order of the domain list and, within a
\* domain, in the order of get_available_tools() (each subprocess comes
\* strictly later in that order than the one created before it).
C1_OneAtATimeInOrder ==
    /\ Cardinality({i \in 1..Len(procs) : Alive(procs[i])}) <= 1
    /\ Len(calls) <= Len(procs)
    /\ Len(procs) <= Len(calls) + 1
    /\ \A i \in 1..Len(calls) : calls[i].tool = procs[i].tool /\ ~Alive(procs[i])
    /\ \A i \in 1..(Len(procs) - 1) :
          LET a == procs[i].tool
              b == procs[i + 1].tool
          IN \/ IndexIn(run_domains, a.domain) < IndexIn(run_domains, b.domain)
             \/ /\ a.domain = b.domain
                /\ IndexIn(get_available_tools, a.cls) < IndexIn(get_available_tools, b.cls)

\* a call that ran tools of two domains, two of them in the same domain, while
\* the last subprocess is still alive
C1_Witness ==
    /\ Len(procs) >= 3
    /\ Alive(LastProc)
    /\ procs[1].tool.domain # LastProc.tool.domain
    /\ procs[Len(procs) - 1].tool.domain = LastProc.tool.domain

StreamedAnnotationsOf(p) ==
    SelectSeq(p.streamed, LAMBDA x : "status" \in DOMAIN x)
StreamedExceptionsOf(p) ==
    SelectSeq(p.streamed, LAMBDA x : "type" \in DOMAIN x)

\* C2: a subprocess that is still running when the timeout elapses is killed
\* and then awaited, run returns (no TimeoutError leaves it) with the
\* annotations and exceptions collected so far, which are recorded, and the
\* call goes on: when it is done, every selected tool has been run.
C2_TimeoutKillsAndContinues ==
    /\ raised # "TimeoutError"
    /\ \A i \in 1..Len(procs) :
          procs[i].caught = "TimeoutError" =>
            /\ procs[i].state \in {"killed", "reaped"}
            /\ (i < Len(procs) \/ pc \in {"return", "tool", "domain", "done"}) =>
                  /\ procs[i].state = "reaped"
                  /\ procs[i].returncode.given
            /\ i <= Len(calls) =>
                  /\ calls[i].annotations = StreamedAnnotationsOf(procs[i])
                  /\ calls[i].exceptions = StreamedExceptionsOf(procs[i])
                  /\ calls[i].exit_code = procs[i].returncode.value
                  /\ procs[i].tool \in DOMAIN results.results
    /\ pc = "done" => RanPairs = SelectedPairs

\* a finished call in which a tool timed out after an annotation was
\* collected, and another tool was run after it
C2_Witness ==
    /\ pc = "done"
    /\ \E i \in 1..(Len(procs) - 1) :
          /\ procs[i].caught = "TimeoutError"
          /\ calls[i].annotations # <<>>

\* C6: exactly the selected (tool, domain) pairs are run, each once; a tool
\* whose lowercased class name is in skip_tools is never instantiated, nothing
\* is run for a domain in skip_domains, and the domains of the call are the
\* members of ToolDomain not in skip_domains, in the order of ToolDomain.
C6_SelectedToolsRunOnce ==
    /\ RanPairs \subseteq SelectedPairs
    /\ Cardinality(RanPairs) = Len(procs)
    /\ pc = "done" => RanPairs = SelectedPairs
    /\ \A t \in instances : Lower(t.cls) \notin skip_tools /\ t.domain \notin skip_domains
    /\ \A i \in 1..Len(procs) : procs[i].tool \in instances
    /\ pc # "start" =>
          /\ Range(run_domains) = Range(ToolDomain) \ skip_domains
          /\ \A i, j \in 1..Len(run_domains) :
                i < j => IndexIn(ToolDomain, run_domains[i]) < IndexIn(ToolDomain, run_domains[j])

\* a finished call with a skipped tool and a skipped domain that ran tools
C6_Witness ==
    /\ pc = "done"
    /\ skip_tools # {}
    /\ skip_domains # {}
    /\ Len(procs) >= 2

\* C9: every variable of get_environment() reaches the subprocess with the
\* tool's value, and every other variable of os.environ is passed unchanged.
C9_ToolEnvironmentWins ==
    \A i \in 1..Len(procs) :
        LET tool_env == get_environment(procs[i].tool)
        IN /\ \A k \in DOMAIN tool_env : procs[i].env[k] = tool_env[k]
           /\ \A k \in DOMAIN os_environ \ DOMAIN tool_env : procs[i].env[k] = os_environ[k]

(***************************************************************************)
(* Properties of ToolResults (SpecRecord).                                 *)
(***************************************************************************)
Acceptable(call) == call.exit_code \in acceptable_exit_codes(call.tool)
HasFailure(call) ==
    \E k \in 1..Len(call.annotations) : call.annotations[k].status \in {"Failed", "Error"}

\* C3: success is False exactly when some recorded tool exited with an
\* unacceptable code or emitted an annotation of status FAILED or ERROR.
C3_SuccessIffNoFailure ==
    results.success = FALSE <=>
        \E i \in 1..Len(calls) : ~Acceptable(calls[i]) \/ HasFailure(calls[i])

\* C4: a tool run with an acceptable exit code and no annotation of status
\* FAILED or ERROR is recorded with a status below FAILED, and a ToolResults
\* that recorded only such runs is still successful.
C4_AcceptableRunSucceeds ==
    /\ \A i \in 1..Len(calls) :
          (Acceptable(calls[i]) /\ ~HasFailure(calls[i])) =>
              StatusLt(results.results[calls[i].tool].success, "Failed")
    /\ (\A i \in 1..Len(calls) : Acceptable(calls[i]) /\ ~HasFailure(calls[i])) =>
          results.success = TRUE

\* the exceptions one call adds: its own, and a ProcessError for a bad exit code
CallExceptions(call) ==
    call.exceptions \o
        (IF Acceptable(call) THEN <<>> ELSE <<ProcessError(call.exit_code, call.tool)>>)

\* C5: annotations and exceptions are the concatenations, in call order, of the
\* lists of all calls (a ProcessError added per unacceptable exit code), and
\* results holds one ToolResult per recorded run, under the run's instance.
C5_ResultsAreConcatenated ==
    /\ results.annotations = Flatten([i \in 1..Len(calls) |-> calls[i].annotations])
    /\ results.exceptions = Flatten([i \in 1..Len(calls) |-> CallExceptions(calls[i])])
    /\ DOMAIN results.results = {calls[i].tool : i \in 1..Len(calls)}
    /\ Cardinality(DOMAIN results.results) = Len(calls)
    /\ \A i \in 1..Len(calls) :
          /\ results.results[calls[i].tool].exit_code = calls[i].exit_code
          /\ results.results[calls[i].tool].annotation_counts = Counter(calls[i].annotations)

\* one class recorded in two domains, both runs with annotations, one of them
\* with an unacceptable exit code
C5_Witness ==
    /\ Len(calls) = 2
    /\ calls[1].tool.cls = calls[2].tool.cls
    /\ calls[1].tool.domain # calls[2].tool.domain
    /\ calls[1].annotations # <<>>
    /\ calls[2].annotations # <<>>
    /\ calls[1].exceptions # <<>>
    /\ ~Acceptable(calls[2])

(***************************************************************************)
(* Properties of BastetConfiguration (SpecConfig).                         *)
(***************************************************************************)
\* the lowercased names the configuration skips
SkippedNames == skip_tools \cup {Lower(d) : d \in skip_domains}

\* the 'disable' list of the configuration file that was loaded
ConfiguredDisable ==
    LET loaded == _load_config(root_dir, config_file).disable
    IN IF loaded.given THEN loaded.value ELSE <<>>

\* C7: the names to skip are the --skip list joined with the disable list,
\* which is the --disable list whenever --disable is given (also with no
\* names) and the configured 'disable' list only when --disable is absent.
C7_DisableOverridesConfig ==
    pc = "configured" =>
        LET disable == IF args.disable.given THEN args.disable.value ELSE ConfiguredDisable
            skip == IF args.skip.given THEN args.skip.value ELSE <<>>
        IN SkippedNames = {Lower(n) : n \in Range(disable) \cup Range(skip)}

\* C8: with --root given, the project root is the directory --root names;
\* without it, the root is detected from the working directory.
C8_RootOptionIsUsed ==
    pc = "configured" =>
        IF args.root.given
        THEN root_dir = args.root.value
        ELSE LET found == _find_pyproject(cwd, config_file)
             IN root_dir = IF found.given THEN found.value ELSE cwd

(***************************************************************************)
(* Properties of Tool (SpecTool).                                          *)
(***************************************************************************)
LastCall == calls[Len(calls)]

\* C10: a constructor call with a domain outside the class's domains() raises
\* InvalidDomainError, a ValueError, and creates no instance; every instance,
\* those of gather_tools included, has a domain of its class, and gather_tools
\* never raises.
C10_InstancesHaveValidDomain ==
    /\ \A t \in instances : t.domain \in domains(t.cls)
    /\ calls # <<>> =>
          /\ (LastCall.op = "Tool" /\ LastCall.domain \notin domains(LastCall.cls)) =>
                /\ raised = "InvalidDomainError"
                /\ "ValueError" \in ExceptionBases(raised)
                /\ instances = LastCall.before
          /\ (LastCall.op = "Tool" /\ LastCall.domain \in domains(LastCall.cls)) =>
                /\ raised = "none"
                /\ Cardinality(instances) = Cardinality(LastCall.before) + 1
          /\ LastCall.op = "gather_tools" =>
                /\ raised = "none"
                /\ Range(tools) \subseteq instances
                /\ \A i \in 1..Len(tools) : tools[i].domain = LastCall.domain

\* a rejected constructor call after gather_tools made instances
C10_Witness ==
    /\ Len(calls) = 2
    /\ calls[1].op = "gather_tools"
    /\ instances # {}
    /\ LastCall.op = "Tool"
    /\ raised = "InvalidDomainError"

\* the names the reporters are taken from: --reporter when it names any, else
\* the 'reporters' list of the configuration file, else 'note'
ReporterSource ==
    LET configured == _load_config(root_dir, config_file).reporters
    IN IF args.reporter.given /\ args.reporter.value # <<>> THEN args.reporter.value
       ELSE IF configured.given THEN configured.value
       ELSE <<"note">>

\* C20: for every reporter name of --reporter or of the configured 'reporters'
\* list (default 'note') the configuration holds the class registered under
\* the name, matched without regard to case, or a warning was logged for the
\* unknown name; the construction never raises because of a reporter name.
C20_ReporterNamesNeverRaise ==
    pc \in {"configured", "raised"} =>
        /\ raised = "none"
        /\ \A n \in Range(ReporterSource) :
              IF Lower(n) \in DOMAIN ReporterClasses
              THEN ReporterClasses[Lower(n)] \in reporters
              ELSE \E i \in 1..Len(log) : log[i] = <<"Unknown reporter class", n>>

(***************************************************************************)
(* tools/tool.py: Annotation                                               *)
(*                                                                         *)
(* An absolute path is the sequence of its names below /, so / is <<>>.    *)
(* A path handed to the program is a pathlib.Path or a str, absolute or    *)
(* relative to the working directory. A string the program builds is the   *)
(* sequence of its pieces.                                                 *)
(***************************************************************************)
\* annotations constructed by one client of the class
MaxAnnotations == 3

\* an optional integer: None when given is FALSE
NoInt == [given |-> FALSE, value |-> 0]
SomeInt(n) == [given |-> TRUE, value |-> n]

APath(parts) == [type |-> "Path", abs |-> TRUE, parts |-> parts]
RelPath(parts) == [type |-> "Path", abs |-> FALSE, parts |-> parts]
AStr(parts) == [type |-> "str", abs |-> TRUE, parts |-> parts]

\* the source argument: None, a bare path, or a (path, line, column) tuple
NoSource == [kind |-> "None", path |-> APath(<<>>), line |-> NoInt, col |-> NoInt]
Bare(path) == [kind |-> "bare", path |-> path, line |-> NoInt, col |-> NoInt]
Triple(path, line, col) == [kind |-> "tuple", path |-> path, line |-> line, col |-> col]

\* pathlib.Path.absolute(): a relative path is joined to the working directory
absolute(path, cwd_) == IF path.abs THEN path.parts ELSE cwd_ \o path.parts

\* Python truthiness of a source: None and the empty string are falsy, a Path
\* and a tuple of three are not
Falsy(source) ==
    \/ source.kind = "None"
    \/ source.kind = "bare" /\ source.path.type = "str" /\ source.path.parts = <<>>
                            /\ ~source.path.abs

\* `x or 0` on an optional integer
OrZero(opt) == IF opt.given /\ opt.value # 0 THEN opt.value ELSE 0

\* Annotation._normalise_source: the (path, line, column) tuple, or the
\* exception raised. A str is no pathlib.Path, so a bare string falls through
\* to source[0].absolute(), where source[0] is a one character str; so does a
\* tuple whose path is a str. A str has no attribute absolute.
_normalise_source(source, root, cwd_) ==
    IF Falsy(source) THEN [raised |-> "none", value |-> <<root, 0, 0>>]
    ELSE IF source.kind = "bare" /\ source.path.type = "Path"
    THEN [raised |-> "none", value |-> <<absolute(source.path, cwd_), 0, 0>>]
    ELSE IF source.path.type = "str"
    THEN [raised |-> "AttributeError", value |-> <<>>]
    ELSE [raised |-> "none",
          value |-> <<absolute(source.path, cwd_), OrZero(source.line), OrZero(source.col)>>]

\* str.strip() on the codes and messages of the model
Strip(text) ==
    CASE text = " E1" -> "E1"
      [] text = "same text\n" -> "same text"
      [] OTHER -> text

\* Annotation.__init__: the new object, or the exception raised. The tool
\* attribute is not set by the constructor. A description is the sequence of
\* its lines, none of which begins or ends the text with white space; the
\* empty one stands for None and for "". The empty diff stands for None.
AnnotationInit(status, source, code, message, description, root, cwd_) ==
    LET normal == _normalise_source(source, root, cwd_)
    IN IF normal.raised # "none" THEN [raised |-> normal.raised, value |-> <<>>]
       ELSE [raised |-> "none",
             value |-> [status |-> status, source |-> normal.value, tool |-> "unset",
                        code |-> Strip(code), message |-> Strip(message),
                        description |-> IF description = <<>> THEN NoneValue
                                        ELSE Some(description),
                        diff |-> <<>>]]

\* whether the path is the directory or lies below it
IsRelativeTo(path, dir) ==
    Len(dir) <= Len(path) /\ SubSeq(path, 1, Len(dir)) = dir

RECURSIVE JoinPath(_)
\* str() of a relative path: its names joined by the separator ("." if none)
JoinPath(parts) ==
    IF parts = <<>> THEN <<".">>
    ELSE IF Len(parts) = 1 THEN parts
    ELSE <<Head(parts), "/">> \o JoinPath(Tail(parts))

\* str(path.relative_to(root)), or the ValueError of relative_to
RelativeStr(path, root) ==
    IF IsRelativeTo(path, root)
    THEN [raised |-> "none", value |-> JoinPath(SubSeq(path, Len(root) + 1, Len(path)))]
    ELSE [raised |-> "ValueError", value |-> <<>>]

\* Annotation.filename
filename(a, root) ==
    IF a.source[1] = root THEN [raised |-> "none", value |-> <<"[project]">>]
    ELSE RelativeStr(a.source[1], root)

\* Annotation.file_str with the line shown only when it is positive
FileStrPositiveOnly(a, root) ==
    IF a.source[1] = root THEN [raised |-> "none", value |-> <<"[project]">>]
    ELSE LET file == RelativeStr(a.source[1], root)
         IN IF file.raised # "none" \/ ~(a.source[2] > 0) THEN file
            ELSE [file EXCEPT !.value = @ \o <<":", ToString(a.source[2])>>]

\* Annotation.file_str
file_str(a, root) ==
    IF a.source[1] = root THEN [raised |-> "none", value |-> <<"[project]">>]
    ELSE LET file == RelativeStr(a.source[1], root)
         IN IF file.raised # "none" \/ a.source[2] = 0 THEN file
            ELSE [file EXCEPT !.value = @ \o <<":", ToString(a.source[2])>>]

\* the strings of the model that the program compares with <, in the order
\* of Python's str comparison (by code point)
StringOrder ==
    <<"E1", "W2", "a.py", "b.py", "c.py", "edit", "group", "other", "proj", "src", "x.py">>

\* str.__lt__
StrLt(a, b) ==
    (CHOOSE i \in 1..Len(StringOrder) : StringOrder[i] = a)
        < (CHOOSE i \in 1..Len(StringOrder) : StringOrder[i] = b)

RECURSIVE PathLt(_, _)
\* pathlib.PurePath.__lt__: the lists of the parts compared as lists
PathLt(a, b) ==
    IF a = <<>> THEN b # <<>>
    ELSE IF b = <<>> THEN FALSE
    ELSE IF Head(a) = Head(b) THEN PathLt(Tail(a), Tail(b))
    ELSE StrLt(Head(a), Head(b))

\* < on two source tuples with the line compared before the path
SourceLtLineFirst(s, t) ==
    IF s[2] # t[2] THEN s[2] < t[2]
    ELSE IF s[1] # t[1] THEN PathLt(s[1], t[1])
    ELSE s[3] < t[3]

\* tuple.__lt__ on two (path, line, column) tuples: the first item that
\* differs decides
SourceLt(s, t) ==
    IF s[1] # t[1] THEN PathLt(s[1], t[1])
    ELSE IF s[2] # t[2] THEN s[2] < t[2]
    ELSE s[3] < t[3]

\* Annotation.__lt__
__lt__(a, b) ==
    IF a.source = b.source THEN StrLt(a.code, b.code)
    ELSE SourceLt(a.source, b.source)

RECURSIVE Insert(_, _)
\* x placed before the first member of the sorted list that x is less than
Insert(x, list) ==
    IF list = <<>> THEN <<x>>
    ELSE IF __lt__(x, Head(list)) THEN <<x>> \o list
    ELSE <<Head(list)>> \o Insert(x, Tail(list))

RECURSIVE sorted(_)
\* sorted(list): a stable sort that compares with < only
sorted(list) ==
    IF list = <<>> THEN <<>>
    ELSE Insert(list[Len(list)], sorted(SubSeq(list, 1, Len(list) - 1)))

(***************************************************************************)
(* Annotation: a client that sets the root, normalises sources, constructs *)
(* annotations and sorts them.                                             *)
(***************************************************************************)
FileA == <<"proj", "a.py">>

\* the roots given to Annotation.set_root
Roots == {ProjectDir, <<"proj", "src">>}

\* the sources given to _normalise_source and to the constructor
AnnotationSources ==
    { NoSource,
      Bare(APath(ProjectDir)),
      Bare(APath(FileA)),
      Bare(RelPath(<<"b.py">>)),
      Bare(AStr(FileA)),
      Triple(APath(FileA), NoInt, NoInt),
      Triple(APath(FileA), SomeInt(1), NoInt),
      Triple(APath(FileA), SomeInt(1), SomeInt(0)),
      Triple(APath(FileA), SomeInt(-1), SomeInt(0)),
      Triple(APath(FileA), SomeInt(1), SomeInt(1)),
      Triple(AStr(FileA), SomeInt(1), SomeInt(0)),
      Triple(APath(<<"proj", "src", "c.py">>), SomeInt(2), SomeInt(3)),
      Triple(APath(<<"other", "x.py">>), SomeInt(1), SomeInt(0)) }

\* the sources and codes given to the constructor
ConstructorInputs ==
    {[source |-> source, code |-> "E1"] :
        source \in { NoSource,
                     Bare(APath(ProjectDir)),
                     Bare(APath(FileA)),
                     Bare(RelPath(<<"b.py">>)),
                     Bare(AStr(FileA)),
                     Triple(APath(FileA), SomeInt(1), NoInt),
                     Triple(APath(FileA), SomeInt(-1), SomeInt(0)),
                     Triple(APath(FileA), SomeInt(1), SomeInt(1)),
                     Triple(AStr(FileA), SomeInt(1), SomeInt(0)),
                     Triple(APath(<<"proj", "src", "c.py">>), SomeInt(2), SomeInt(3)) }}
        \cup {[source |-> source, code |-> "W2"] :
                 source \in {NoSource, Triple(APath(FileA), SomeInt(1), SomeInt(1))}}

InitAnnotation ==
    /\ pc = "annotations"
    /\ args = NoArgs
    /\ cwd = ProjectDir
    /\ config_file = NoConfigFile
    /\ root_dir = ProjectDir
    /\ disabled = <<>>
    /\ skip_tools = {}
    /\ skip_domains = {}
    /\ os_environ = <<>>
    /\ run_domains = <<>>
    /\ d_idx = 0
    /\ tools = <<>>
    /\ t_idx = 0
    /\ instances = {}
    /\ procs = <<>>
    /\ reporter = NewReporter
    /\ results = NewToolResults
    /\ calls = <<>>
    /\ raised = "none"
    /\ reporters = {}
    /\ log = <<>>
    /\ _CWD = cwd
    /\ created = <<>>
    /\ issues = <<>>
    /\ stdout = <<>>
    /\ fs = <<>>
    /\ gatherer = <<>>
    /\ data = <<>>
    /\ parser = <<>>
    /\ yielded = <<>>

\* Annotation.set_root(path)
SetRoot(path) ==
    /\ pc = "annotations"
    /\ _CWD' = path
    /\ UNCHANGED <<pc, runner_vars, calls, raised, created, reporter_vars, report_vars,
                   gather_vars, parse_vars>>

\* Annotation._normalise_source(source), which neither reads nor changes the
\* annotations made: the client calls it before it constructs any; calls
\* keeps the last call made
NormaliseSource(source) ==
    /\ pc = "annotations"
    /\ created = <<>>
    /\ LET result == _normalise_source(source, _CWD, cwd)
       IN /\ calls' = <<[op |-> "_normalise_source", source |-> source, root |-> _CWD,
                         result |-> result.value]>>
          /\ raised' = result.raised
    /\ UNCHANGED <<pc, runner_vars, annotation_vars, reporter_vars, report_vars,
                   gather_vars, parse_vars>>

\* Annotation(status, source, code, message)
AnnotationNew(status, source, code, message) ==
    /\ pc = "annotations"
    /\ Len(created) < MaxAnnotations
    /\ LET made == AnnotationInit(status, source, code, message, <<>>, _CWD, cwd)
       IN /\ raised' = made.raised
          /\ created' = IF made.raised = "none" THEN Append(created, made.value)
                                                ELSE created
          /\ calls' = <<>>
    /\ UNCHANGED <<pc, runner_vars, _CWD, reporter_vars, report_vars, gather_vars,
                   parse_vars>>

\* sorted(annotations) on the annotations constructed so far
Sorted ==
    /\ pc = "annotations"
    /\ created # <<>>
    /\ calls' = <<[op |-> "sorted", source |-> NoSource, root |-> _CWD,
                   result |-> sorted(created)]>>
    /\ raised' = "none"
    /\ UNCHANGED <<pc, runner_vars, annotation_vars, reporter_vars, report_vars,
                   gather_vars, parse_vars>>

NextAnnotation ==
    \/ \E path \in Roots : SetRoot(path)
    \/ \E source \in AnnotationSources : NormaliseSource(source)
    \/ \E input \in ConstructorInputs :
          AnnotationNew("Failed", input.source, input.code, "message")
    \/ Sorted

SpecAnnotation == InitAnnotation /\ [][NextAnnotation]_vars

(***************************************************************************)
(* Properties of Annotation (SpecAnnotation).                              *)
(***************************************************************************)
\* the absolute path a source names, whichever way the path is given
NamedPath(source) == IF source.path.abs THEN source.path.parts ELSE cwd \o source.path.parts

\* C11: _normalise_source maps None to (root, 0, 0), a bare path given as a
\* Path or as a string to (absolute path, 0, 0), and a (path, line, column)
\* tuple with the path given as a Path or as a string to (absolute path, line,
\* column), None becoming 0 and every other integer kept.
C11_NormaliseSource ==
    (calls # <<>> /\ calls[1].op = "_normalise_source") =>
        LET source == calls[1].source
        IN /\ raised = "none"
           /\ calls[1].result =
                 CASE source.kind = "None" -> <<calls[1].root, 0, 0>>
                   [] source.kind = "bare" -> <<NamedPath(source), 0, 0>>
                   [] source.kind = "tuple" ->
                         <<NamedPath(source),
                           IF source.line.given THEN source.line.value ELSE 0,
                           IF source.col.given THEN source.col.value ELSE 0>>

\* the names of the path below the root
BelowRoot(path) == SubSeq(path, Len(_CWD) + 1, Len(path))

\* C12: filename is "." for an annotation on the project root (or made with no
\* source), and for a file under the root it is the path relative to the root,
\* whatever the line and the column.
C12_FilenameRelativeToRoot ==
    \A i \in 1..Len(created) :
        LET path == created[i].source[1]
        IN IsRelativeTo(path, _CWD) =>
              filename(created[i], _CWD) =
                  [raised |-> "none",
                   value |-> IF path = _CWD THEN <<".">> ELSE JoinPath(BelowRoot(path))]

Occurrences(list, a) == Cardinality({i \in 1..Len(list) : list[i] = a})

\* C17: __lt__ is a strict order (never a < a, never a < b and b < a, a < b and
\* b < c imply a < c) that compares the file path, then the line, then the
\* column, then the code; sorted() therefore gives the annotations file by
\* file, in ascending line order within a file.
C17_StrictOrderByFileAndLine ==
    LET made == Range(created)
    IN /\ \A a \in made : ~__lt__(a, a)
       /\ \A a, b \in made : ~(__lt__(a, b) /\ __lt__(b, a))
       /\ \A a, b, c \in made : (__lt__(a, b) /\ __lt__(b, c)) => __lt__(a, c)
       /\ \A a, b \in made :
             __lt__(a, b) <=>
                \/ PathLt(a.source[1], b.source[1])
                \/ a.source[1] = b.source[1] /\ a.source[2] < b.source[2]
                \/ /\ a.source[1] = b.source[1] /\ a.source[2] = b.source[2]
                   /\ a.source[3] < b.source[3]
                \/ a.source = b.source /\ StrLt(a.code, b.code)
       /\ (calls # <<>> /\ calls[1].op = "sorted") =>
             LET out == calls[1].result
             IN /\ Len(out) = Len(created)
                /\ \A a \in made : Occurrences(out, a) = Occurrences(created, a)
                /\ \A i \in 1..(Len(out) - 1) :
                      /\ ~PathLt(out[i + 1].source[1], out[i].source[1])
                      /\ out[i].source[1] = out[i + 1].source[1] =>
                            out[i].source[2] <= out[i + 1].source[2]

\* three annotations, on two files, two of them at one place with different
\* codes, given out of order and sorted
C17_Witness ==
    /\ calls # <<>>
    /\ calls[1].op = "sorted"
    /\ Len(created) = 3
    /\ calls[1].result # created
    /\ \E i, j \in 1..3 : created[i].source[1] # created[j].source[1]
    /\ \E i, j \in 1..3 :
          created[i].source = created[j].source /\ created[i].code # created[j].code

(***************************************************************************)
(* reporting/console.py: GitHubReporter                                    *)
(***************************************************************************)
\* annotations recorded before one summary is written
MaxIssues == 3

RECURSIVE GroupKeys(_)
\* group_issues, "Group annotations by file and line": the keys of the
\* grouping dictionary in the order they were inserted; the key is the whole
\* source tuple (path, line, column)
GroupKeys(annotations_) ==
    IF annotations_ = <<>> THEN <<>>
    ELSE LET before == GroupKeys(SubSeq(annotations_, 1, Len(annotations_) - 1))
             annotation == annotations_[Len(annotations_)]
         IN IF StatusLt(annotation.status, "Warning") \/ annotation.source \in Range(before)
            THEN before
            ELSE Append(before, annotation.source)

\* the set stored under the key: a set keeps one of any two members that are
\* equal, and the dataclass __eq__ compares every field (equal members have
\* equal __hash__, which is computed from status, tool, source and code)
GroupMembers(annotations_, source) ==
    {annotations_[i] : i \in {k \in 1..Len(annotations_) :
        /\ ~StatusLt(annotations_[k].status, "Warning")
        /\ annotations_[k].source = source}}

\* the lowest status of a non-empty set of statuses
MinOf(statuses) == CHOOSE s \in statuses : \A t \in statuses : ~StatusLt(t, s)

\* max() over a non-empty set of statuses, which compares with >
MaxOf(statuses) == CHOOSE s \in statuses : \A t \in statuses : ~StatusGt(t, s)

\* GitHubReporter.format_sub_issue: the pieces of the line of text
format_sub_issue(issue) ==
    IF ~issue.description.given THEN <<"- ", issue.tool.cls, issue.code, issue.message>>
    ELSE <<"- ", issue.tool.cls, issue.code, issue.message, "\n", issue.message>>

\* the annotation yielded for one key of the grouping. The text of an
\* aggregate joins the lines of its members in the iteration order of a set,
\* which is not fixed: the description is the set of the lines.
GroupIssue(annotations_, source, root, cwd_) ==
    LET members == GroupMembers(annotations_, source)
    IN IF Cardinality(members) = 1 THEN CHOOSE issue \in members : TRUE
       ELSE AnnotationInit(MaxOf({issue.status : issue \in members}),
                           Triple(APath(source[1]), SomeInt(source[2]), SomeInt(source[3])),
                           "group",
                           ToString(Cardinality(members)) \o " issues on this line",
                           <<{format_sub_issue(issue) : issue \in members}>>,
                           root, cwd_).value

\* list(GitHubReporter.group_issues(annotations))
group_issues(annotations_, root, cwd_) ==
    LET keys == GroupKeys(annotations_)
    IN [i \in 1..Len(keys) |-> GroupIssue(annotations_, keys[i], root, cwd_)]

\* GitHubReporter.summarise: what is written to sys.stdout, item by item
SummaryOutput(issues_, root) ==
    LET ordered == sorted(issues_)
    IN <<<<"::group::Annotations">>>>
        \o [i \in 1..Len(ordered) |->
              <<"::", ordered[i].status, "file=", filename(ordered[i], root).value,
                "line=", ordered[i].source[2], "col=", ordered[i].source[3],
                "title=", ordered[i].message>>]
        \o <<<<"::endgroup::">>, <<"Total Issues: ", Len(issues_)>>>>

(***************************************************************************)
(* GitHubReporter: annotations are recorded, then the summary is written.  *)
(***************************************************************************)
\* the tools whose annotations are recorded: the instances of one gather_tools
\* call with nothing skipped
ReportTools == gather_tools("Lint", {}, 1).tools

\* the annotations the tools yield: (index of the tool, status, path, line,
\* column, code, message)
ReportedAnnotations ==
    { <<6, "Failed", FileA, 1, 0, "E1", "same text">>,
      <<7, "Failed", FileA, 1, 0, "E1", "same text">>,
      <<6, "Failed", FileA, 1, 0, "W2", "same text\n">>,
      <<6, "Warning", FileA, 1, 0, "W2", "other text">>,
      <<6, "Error", FileA, 1, 1, "E1", "same text">>,
      <<6, "Passed", FileA, 1, 0, "E1", "same text">>,
      <<7, "Fixed", <<"proj", "b.py">>, 0, 0, "E1", "same text">>,
      <<7, "Warning", <<"proj", "b.py">>, 0, 0, "E1", "other text">> }

InitReport ==
    /\ pc = "report"
    /\ args = NoArgs
    /\ cwd = ProjectDir
    /\ config_file = NoConfigFile
    /\ root_dir = ProjectDir
    /\ disabled = <<>>
    /\ skip_tools = {}
    /\ skip_domains = {}
    /\ os_environ = <<>>
    /\ run_domains = <<>>
    /\ d_idx = 0
    /\ tools = ReportTools
    /\ t_idx = 0
    /\ instances = Range(ReportTools)
    /\ procs = <<>>
    /\ reporter = NewReporter
    /\ results = NewToolResults
    /\ calls = <<>>
    /\ raised = "none"
    /\ AuxInit

\* one annotation of a tool reaches the results: the annotation is
\* constructed by the tool's process_results, the report handler names the
\* tool in it, and ToolResults.record adds it to results.annotations
ReportAnnotation(t, status, path, line, col, code, message) ==
    /\ pc = "report"
    /\ Len(results.annotations) < MaxIssues
    /\ LET made == AnnotationInit(status, Triple(APath(path), SomeInt(line), SomeInt(col)),
                                  code, message, <<>>, _CWD, cwd).value
           annotation == [made EXCEPT !.tool = tools[t]]
       IN results' = record(results, tools[t], <<annotation>>, <<>>, 0)
    /\ UNCHANGED <<pc, config_vars, os_environ, loop_vars, instances, procs, reporter,
                   calls, raised, aux_vars>>

\* GitHubReporter.summarise(results)
SummariseGitHub ==
    /\ pc = "report"
    /\ LET grouped == group_issues(results.annotations, _CWD, cwd)
       IN /\ issues' = grouped
          /\ stdout' = SummaryOutput(grouped, _CWD)
    /\ pc' = "summarised"
    /\ UNCHANGED <<runner_vars, calls, raised, reporter_vars, annotation_vars,
                   gather_vars, parse_vars>>

NextReport ==
    \/ \E a \in ReportedAnnotations :
          ReportAnnotation(a[1], a[2], a[3], a[4], a[5], a[6], a[7])
    \/ SummariseGitHub

SpecReport == InitReport /\ [][NextReport]_vars

(***************************************************************************)
(* Properties of GitHubReporter (SpecReport).                              *)
(***************************************************************************)
\* the annotations given to group_issues that have status WARNING or above
Reportable ==
    {results.annotations[i] : i \in {k \in 1..Len(results.annotations) :
        StatusOrdering(results.annotations[k].status) >= StatusOrdering("Warning")}}

\* the line of code an annotation is on: its file and its line
LineOf(annotation) == <<annotation.source[1], annotation.source[2]>>

\* C14: group_issues gives one annotation per line of code: the annotations of
\* status WARNING or above on one file and line are covered by one annotation
\* of the output, whatever their columns, and no two annotations of the output
\* are on the same file and line.
C14_OneAnnotationPerLine ==
    pc = "summarised" =>
        /\ \A a \in Reportable :
              Cardinality({i \in 1..Len(issues) : LineOf(issues[i]) = LineOf(a)}) = 1
        /\ \A i, j \in 1..Len(issues) : i # j => LineOf(issues[i]) # LineOf(issues[j])

\* C15: annotations at one place with the same text count as one item,
\* whichever tool or code produced them: when all annotations of status
\* WARNING or above at a place carry the same text, the output for the place
\* is one of them, not an aggregate.
C15_SameTextIsOneItem ==
    pc = "summarised" =>
        \A a \in Reportable :
            (\A b \in Reportable : b.source = a.source => b.message = a.message) =>
                \E i \in 1..Len(issues) :
                    /\ issues[i].source = a.source
                    /\ issues[i].message = a.message
                    /\ \E b \in Reportable : b.source = a.source /\ b.code = issues[i].code

\* the annotations of status WARNING or above at the place, equal ones once
ItemsAt(source) == {a \in Reportable : a.source = source}

SrcDir == <<"proj", "src">>
TestsDir == <<"proj", "tests">>
BuildDir == <<"proj", "build">>

\* the directories of the project
PkgDir == <<"proj", "src", "pkg">>
TreeDirs == {ProjectDir, <<"proj", ".git">>, SrcDir, PkgDir, TestsDir, BuildDir}

\* Path.iterdir(): the names in the directory (in no particular order)
Children(dir, files) ==
    (CASE dir = ProjectDir -> {".git", "main.py", "src", "tests", "build"}
       [] dir = SrcDir -> {"a.py", "tmp.py", "pkg"}
                            \cup (IF files.gitignore.exists THEN {".gitignore"} ELSE {})
       [] dir = PkgDir -> {"mod.py"}
       [] dir = TestsDir -> {"tmp.py"}
       [] dir = BuildDir -> {"gen.py"}
       [] OTHER -> {})
        \cup (IF dir \in files.inits THEN {"__init__.py"} ELSE {})

\* Path.exists() on a scan root
Exists(path) == path \in TreeDirs

\* str.endswith(".py") on the names of the project
PyNames == {"main.py", "a.py", "tmp.py", "gen.py", "mod.py", "__init__.py"}
EndsWithPy(name) == name \in PyNames

\* the name of a path
Name(path) == IF path = <<>> THEN "" ELSE path[Len(path)]

\* Path.parents: the proper ancestors of the path
Parents(path) == {SubSeq(path, 1, n) : n \in 0..(Len(path) - 1)}

\* the three kinds of object gather and _scan_dir put in the list of ignores:
\* the lambda on the name, the rule object gitignore_parser.rule_from_pattern
\* returns, and the function gitignore_parser.parse_gitignore returns
NameLambda == [kind |-> "lambda", base |-> <<>>, names |-> {".git", ".hg"}]
rule_from_pattern(pattern, base) == [kind |-> "rule", base |-> base, names |-> {pattern}]
parse_gitignore(rules, base) == [kind |-> "function", base |-> base, names |-> rules]

\* whether a pattern of the rules matches the path
Matches(rules, base, path) ==
    /\ IsRelativeTo(path, base)
    /\ \E i \in (Len(base) + 1)..Len(path) : path[i] \in rules

\* ignore(file) for a member of the list: the lambda and the function return
\* a truth value; the rule object offers match() but is not callable, so the
\* call raises TypeError
CallIgnore(ignore, file) ==
    CASE ignore.kind = "lambda" -> [raised |-> "none", value |-> Name(file) \in ignore.names]
      [] ignore.kind = "function" ->
            [raised |-> "none", value |-> Matches(ignore.names, ignore.base, file)]
      [] ignore.kind = "rule" -> [raised |-> "TypeError", value |-> FALSE]

RECURSIVE AnyIgnore(_, _)
\* any(ignore(file) for ignore in ignores): the members are called in order up
\* to the first that returns True
AnyIgnore(ignores, file) ==
    IF ignores = <<>> THEN [raised |-> "none", value |-> FALSE]
    ELSE LET first == CallIgnore(Head(ignores), file)
         IN IF first.raised # "none" \/ first.value THEN first
            ELSE AnyIgnore(Tail(ignores), file)

\* PathGatherer._initial_path: the entries of sys.path below the root
_initial_path(root, sys_path) == {path \in sys_path : root \in Parents(path)}

\* PathGatherer.gather, the list _ignores before the scan
InitialIgnores(exclude, root, files) ==
    <<NameLambda>>
        \o [i \in 1..Len(exclude) |-> rule_from_pattern(exclude[i], root)]
        \o (IF files.local_exclude.exists
            THEN <<parse_gitignore(files.local_exclude.rules, root)>> ELSE <<>>)

\* PathGatherer._add_path: the set after the call
_add_path(paths, path) ==
    IF path \in paths \/ \E other \in paths : IsRelativeTo(path, other) THEN paths
    ELSE paths \cup {path}

\* PathGatherer._closest_relative: the deepest member of the set among the
\* ancestors of the path, None if there is none
_closest_relative(paths, path) ==
    LET above == paths \cap Parents(path)
    IN IF above = {} THEN [given |-> FALSE, value |-> <<>>]
       ELSE [given |-> TRUE,
             value |-> CHOOSE dir \in above : \A other \in above : Len(other) <= Len(dir)]

\* (file.parent / "__init__.py").exists()
HasInit(dir, files) == dir \in files.inits

\* PathGatherer._process_python_file: the object after the call
_process_python_file(self, file, files) ==
    LET noted == [self EXCEPT !._python_files = @ \cup {file},
                              !._python_module_path = _add_path(@, Parent(file))]
        py_root == _closest_relative(self._potential_py_path,
                                     IF HasInit(Parent(file), files) THEN Parent(file)
                                     ELSE file)
    IN IF _closest_relative(self._python_path, file).given \/ ~py_root.given THEN noted
       ELSE [noted EXCEPT !._potential_py_path = @ \ {py_root.value},
                          !._python_path = @ \cup {py_root.value}]

\* PathGatherer._process_python_file: the warnings the call logs, one for a
\* directory it adds to the python path that sys.path did not name
PythonPathWarnings(self, file, files) ==
    LET added == _process_python_file(self, file, files)._python_path \ self._python_path
    IN IF added \subseteq self._initial_py_path THEN <<>>
       ELSE <<<<"Detecting as a path, but not in PYTHON_PATH", CHOOSE dir \in added : TRUE>>>>

\* PathGatherer._scan_dir up to its loop: the frame of the call, with the
\* .gitignore of the directory added to a copy of the list, and the object
EnterDir(self, path, ignores, files) ==
    [frame |-> [path |-> path,
                ignores |-> IF path = SrcDir /\ files.gitignore.exists
                            THEN Append(ignores, parse_gitignore(files.gitignore.rules, path))
                            ELSE ignores,
                todo |-> Children(path, files)],
     self |-> IF Name(path) \in self._pypath_selector /\ path \notin self._potential_py_path
              THEN [self EXCEPT !._potential_py_path = @ \cup {path}]
              ELSE self]

\* Path.is_dir()
is_dir(path) == path \in TreeDirs

\* PathGatherer.__init__(logger, root, folders); ignores, roots and stack are
\* the local _ignores of gather, the scan roots gather has still to visit and
\* the frames of the calls of _scan_dir in progress
NewPathGatherer(root, folders) ==
    [root |-> root,
     _initial_folders |-> folders,
     _initial_py_path |-> {},
     _potential_py_path |-> {},
     _python_path |-> {},
     _python_module_path |-> {},
     _python_files |-> {},
     _pypath_selector |-> {},
     ignores |-> <<>>,
     roots |-> <<>>,
     stack |-> <<>>]

(***************************************************************************)
(* SpecGather: one call of PathGatherer.gather on the project, met step by *)
(* step: the setup, each scan root, each entry of each directory scanned   *)
(* (iterdir gives them in any order), each return of _scan_dir and the     *)
(* return of gather.                                                       *)
(***************************************************************************)
NoFile == [exists |-> FALSE, rules |-> {}]
File(rules) == [exists |-> TRUE, rules |-> rules]

\* args.folders
FolderOptions == {<<>>, <<SrcDir>>, <<TestsDir, SrcDir>>, <<<<"proj", "missing">>, BuildDir>>}
\* <root>/.git/info/exclude
LocalExcludeOptions == {NoFile, File({"tmp.py"}), File({"build"})}
\* <root>/src/.gitignore
GitignoreOptions == {NoFile, File({"tmp.py"}), File({"a.py"})}
\* the directories that hold an __init__.py
InitOptions == {{}, {TestsDir}, {SrcDir}, {SrcDir, PkgDir}}
\* sys.path
SysPathOptions == {{}, {SrcDir}}
\* the exclude list of the command line or the configuration file
ExcludeOptions == {<<>>, <<"build">>, <<"tests", "tmp.py">>}
\* the default of the "sources" list of the configuration file
DefaultSources == {"src", "tests"}

InitGather ==
    /\ pc = "gather"
    /\ args = NoArgs
    /\ cwd = ProjectDir
    /\ config_file = NoConfigFile
    /\ root_dir = ProjectDir
    /\ disabled = <<>>
    /\ skip_tools = {}
    /\ skip_domains = {}
    /\ os_environ = <<>>
    /\ run_domains = <<>>
    /\ d_idx = 0
    /\ tools = <<>>
    /\ t_idx = 0
    /\ instances = {}
    /\ procs = <<>>
    /\ reporter = NewReporter
    /\ results = NewToolResults
    /\ calls = <<>>
    /\ raised = "none"
    /\ reporters = {}
    /\ log = <<>>
    /\ _CWD = cwd
    /\ created = <<>>
    /\ issues = <<>>
    /\ stdout = <<>>
    /\ fs \in [local_exclude : LocalExcludeOptions, gitignore : GitignoreOptions,
               sys_path : SysPathOptions, inits : InitOptions]
    /\ gatherer \in {NewPathGatherer(root_dir, folders) : folders \in FolderOptions}
    /\ data = <<>>
    /\ parser = <<>>
    /\ yielded = <<>>

gather_rest == <<runner_vars, reporters, annotation_vars, report_vars, fs, parse_vars>>

TopFrame == gatherer.stack[Len(gatherer.stack)]

\* the stack with its top frame replaced
WithTop(stack, frame) == [stack EXCEPT ![Len(stack)] = frame]

\* PathGatherer.gather up to its loop over the scan roots
Gather(exclude, pypath_selector) ==
    /\ pc = "gather"
    /\ gatherer' = [gatherer EXCEPT
                        !._potential_py_path = _initial_path(gatherer.root, fs.sys_path),
                        !._initial_py_path = _initial_path(gatherer.root, fs.sys_path),
                        !._python_path = {},
                        !._python_module_path = {},
                        !._pypath_selector = pypath_selector,
                        !.ignores = InitialIgnores(exclude, gatherer.root, fs),
                        !.roots = IF gatherer._initial_folders # <<>>
                                  THEN gatherer._initial_folders ELSE <<gatherer.root>>]
    /\ calls' = <<[op |-> "gather", exclude |-> exclude, pypath_selector |-> pypath_selector]>>
    /\ pc' = "scanning"
    /\ UNCHANGED <<gather_rest, raised, log>>

\* one round of the loop of gather: a scan root that does not exist is logged
\* and passed over, another one is scanned
ScanRoot ==
    /\ pc = "scanning"
    /\ gatherer.stack = <<>>
    /\ gatherer.roots # <<>>
    /\ LET root == Head(gatherer.roots)
           entered == EnterDir(gatherer, root, gatherer.ignores, fs)
       IN IF ~Exists(root)
          THEN /\ log' = Append(log, <<"does not exist, can not scan", root>>)
               /\ gatherer' = [gatherer EXCEPT !.roots = Tail(@)]
          ELSE /\ gatherer' = [entered.self EXCEPT !.roots = Tail(@),
                                                   !.stack = <<entered.frame>>]
               /\ UNCHANGED log
    /\ UNCHANGED <<gather_rest, pc, calls, raised>>

\* one round of the loop of _scan_dir, for the entry of the name
ScanFile(name) ==
    /\ pc = "scanning"
    /\ gatherer.stack # <<>>
    /\ name \in TopFrame.todo
    /\ LET file == TopFrame.path \o <<name>>
           ignored == AnyIgnore(TopFrame.ignores, file)
           rest == WithTop(gatherer.stack, [TopFrame EXCEPT !.todo = @ \ {name}])
           entered == EnterDir(gatherer, file, TopFrame.ignores, fs)
       IN IF ignored.raised # "none"
          THEN /\ raised' = ignored.raised
               /\ pc' = "raised"
               /\ UNCHANGED <<gatherer, log>>
          ELSE /\ gatherer' =
                    IF ignored.value THEN [gatherer EXCEPT !.stack = rest]
                    ELSE IF is_dir(file)
                         THEN [entered.self EXCEPT !.stack = Append(rest, entered.frame)]
                    ELSE IF EndsWithPy(name)
                         THEN [_process_python_file(gatherer, file, fs) EXCEPT !.stack = rest]
                    ELSE [gatherer EXCEPT !.stack = rest]
               /\ log' = IF ~ignored.value /\ ~is_dir(file) /\ EndsWithPy(name)
                         THEN log \o PythonPathWarnings(gatherer, file, fs)
                         ELSE log
               /\ UNCHANGED <<pc, raised>>
    /\ UNCHANGED <<gather_rest, calls>>

\* the return of _scan_dir when its loop has met every entry
ScanReturn ==
    /\ pc = "scanning"
    /\ gatherer.stack # <<>>
    /\ TopFrame.todo = {}
    /\ gatherer' = [gatherer EXCEPT !.stack = SubSeq(@, 1, Len(@) - 1)]
    /\ UNCHANGED <<gather_rest, pc, calls, raised, log>>

\* the return of gather: the PathRepo it constructs
GatherReturn ==
    /\ pc = "scanning"
    /\ gatherer.stack = <<>>
    /\ gatherer.roots = <<>>
    /\ calls' = Append(calls, [op |-> "PathRepo",
                               root |-> gatherer.root,
                               python_path |-> gatherer._python_path,
                               python_files |-> gatherer._python_files,
                               python_module_path |-> gatherer._python_module_path])
    /\ pc' = "gathered"
    /\ UNCHANGED <<gather_rest, gatherer, raised, log>>

NextGather ==
    \/ \E exclude \in ExcludeOptions : Gather(exclude, DefaultSources)
    \/ ScanRoot
    \/ \E name \in {".git", ".gitignore", "src", "tests", "build", "pkg"} \cup PyNames :
          ScanFile(name)
    \/ ScanReturn
    \/ GatherReturn

SpecGather == InitGather /\ [][NextGather]_vars

(***************************************************************************)
(* Properties of PathGatherer (SpecGather).                                *)
(***************************************************************************)
\* the files of the project named *.py
PythonFiles ==
    {dir \o <<name>> : dir \in TreeDirs, name \in PyNames}
        \cap UNION {{dir \o <<name>> : name \in Children(dir, fs)} : dir \in TreeDirs}

\* the directories scanned from the scan root that hold a .gitignore, with its rules
GitignoresBelow(root) ==
    {[dir |-> SrcDir, rules |-> fs.gitignore.rules] : dir \in
        {d \in {SrcDir} : fs.gitignore.exists /\ IsRelativeTo(d, root)}}

\* the path is ignored in the scan from the scan root, given the exclude list
IgnoredPath(path, root, exclude) ==
    \/ Name(path) \in {".git", ".hg"}
    \/ Matches(Range(exclude), gatherer.root, path)
    \/ fs.local_exclude.exists /\ Matches(fs.local_exclude.rules, gatherer.root, path)
    \/ \E g \in GitignoresBelow(root) :
          IsRelativeTo(Parent(path), g.dir) /\ Matches(g.rules, g.dir, path)

\* the files named *.py reachable from the scan roots through directories that
\* are not ignored, and not ignored themselves
ReachablePythonFiles(exclude) ==
    LET given == gatherer._initial_folders
        scan_roots == IF given # <<>> THEN Range(given) ELSE {gatherer.root}
    IN {file \in PythonFiles :
          \E root \in scan_roots :
             /\ Exists(root)
             /\ IsRelativeTo(file, root)
             /\ \A n \in (Len(root) + 1)..Len(file) :
                   ~IgnoredPath(SubSeq(file, 1, n), root, exclude)}

\* C18: a call of gather ends with a PathRepo whose python_files are exactly
\* the files named *.py that are reachable from the scan roots through
\* directories that are not ignored and that are not ignored themselves, by the
\* name .git or .hg, the exclude list, .git/info/exclude or the .gitignore of a
\* scanned directory above them.
C18_GatherHonoursIgnoreRules ==
    pc \in {"gathered", "raised"} =>
        /\ pc = "gathered"
        /\ LastCall.python_files = ReachablePythonFiles(calls[1].exclude)

\* C21: after gather no directory that holds an __init__.py is a member of the
\* python_path of the PathRepo, whatever the layout and the order of the scan.
C21_ModuleRootNotInPythonPath ==
    pc = "gathered" => \A dir \in LastCall.python_path : ~HasInit(dir, fs)

(***************************************************************************)
(* tools: process_results                                                  *)
(*                                                                         *)
(* A line of tool output is the sequence of the fields the parser of the   *)
(* tool cuts it into (at white space, at ':' or at ','), the line end and  *)
(* the white space around the fields left out; the empty sequence is the   *)
(* blank line, and also what readline gives at the end of the stream.      *)
(***************************************************************************)
MaxChunks == 3

\* the field of the line, "" past its end
Field(line, i) == IF i <= Len(line) THEN line[i] ELSE ""

\* str.startswith for a prefix that is a first field
StartsWith(line, prefix) == line # <<>> /\ line[1] = prefix

RECURSIVE JoinLine(_)
\* the text of the line: its fields with one space between them
JoinLine(line) ==
    IF line = <<>> THEN ""
    ELSE IF Len(line) = 1 THEN line[1]
    ELSE line[1] \o " " \o JoinLine(Tail(line))

\* the texts int() converts, with their values; int() of any other text
\* raises ValueError
IntTexts == <<"0", "1", "2", "3", "4", "7", "11", "+1", "+4", "+11">>
IntValues == <<0, 1, 2, 3, 4, 7, 11, 1, 4, 11>>
IsInt(text) == \E i \in 1..Len(IntTexts) : IntTexts[i] = text
int(text) == IntValues[CHOOSE i \in 1..Len(IntTexts) : IntTexts[i] = text]

\* str.strip("[]") on the issue codes of the model
StripBrackets(text) ==
    CASE text = "[B101:assert_used]" -> "B101:assert_used"
      [] text = "[B404:blacklist]" -> "B404:blacklist"
      [] text = "[Errno 2]" -> "Errno 2"
      [] OTHER -> text

\* what a generator gives: an Annotation or a ToolError
YieldAnnotation(annotation) == [type |-> "Annotation", value |-> annotation]
OutputParsingError(expected, data_) ==
    [type |-> "OutputParsingError", value |-> [expected |-> expected, data |-> data_]]

(***************************************************************************)
(* tools/audit.py: Bandit                                                  *)
(***************************************************************************)
Dashes == <<"---------------------------">>

RECURSIVE _prepare_target_block(_)
\* _prepare_target_block: the block from its first line that starts with
\* ">>", the empty block if there is none (where the code raises
\* OutputParsingError)
_prepare_target_block(block) ==
    IF block = <<>> THEN <<>>
    ELSE IF StartsWith(Head(block), ">>") THEN block
    ELSE _prepare_target_block(Tail(block))

\* _get_position_from_loc_line: the fields of "Location: path:line:char"
_get_position_from_loc_line(loc_line) ==
    IF IsInt(Field(loc_line, 3)) /\ IsInt(Field(loc_line, 4))
    THEN [raised |-> "none", path |-> Field(loc_line, 2),
          line |-> int(Field(loc_line, 3)), char |-> int(Field(loc_line, 4))]
    ELSE [raised |-> "ValueError", path |-> "", line |-> 0, char |-> 0]

\* bandit_output_block_to_annotation: the Annotation of the block, or the
\* exception raised. The issue line is ">> Issue: [code] message", the level
\* line "Severity: x Confidence: y".
bandit_output_block_to_annotation(block, root, cwd_) ==
    LET target_block == _prepare_target_block(block)
        issue_line == target_block[1]
        level == target_block[2]
        cwe == target_block[3]
        docs == target_block[4]
        location == target_block[5]
        with_prefix == Field(issue_line, 2) = "Issue:"
        issue_code == StripBrackets(Field(issue_line, IF with_prefix THEN 3 ELSE 1))
        issue == JoinLine(SubSeq(issue_line, IF with_prefix THEN 4 ELSE 2, Len(issue_line)))
        position == _get_position_from_loc_line(location)
    IN IF target_block = <<>> THEN [raised |-> "OutputParsingError", value |-> <<>>]
       ELSE IF Len(target_block) < 5 THEN [raised |-> "ValueError", value |-> <<>>]
       ELSE IF Len(level) # 4 THEN [raised |-> "ValueError", value |-> <<>>]
       ELSE IF level[1] # "Severity:" \/ level[3] # "Confidence:"
       THEN [raised |-> "OutputParsingError", value |-> <<>>]
       ELSE IF ~StartsWith(location, "Location:")
       THEN [raised |-> "OutputParsingError", value |-> <<>>]
       ELSE IF position.raised # "none" THEN [raised |-> position.raised, value |-> <<>>]
       ELSE AnnotationInit("Failed",
                           Triple(RelPath(<<position.path>>), SomeInt(position.line),
                                  SomeInt(position.char)),
                           issue_code, issue,
                           <<"(" \o level[2] \o " severity / " \o level[4] \o " confidence) "
                               \o JoinLine(cwe) \o " " \o JoinLine(docs)>>,
                           root, cwd_)

\* Bandit.process_results' round without the reset of the block after a line
\* of dashes: the lines of every earlier block stay in the block
BanditStepKeepsBlock(block, line, root, cwd_) ==
    LET made == bandit_output_block_to_annotation(block, root, cwd_)
    IN IF ~StartsWith(line, Dashes[1])
       THEN [raised |-> "none", yields |-> <<>>, block |-> Append(block, line)]
       ELSE IF made.raised # "none"
       THEN [raised |-> made.raised, yields |-> <<>>, block |-> block]
       ELSE [raised |-> "none", yields |-> <<YieldAnnotation(made.value)>>, block |-> Append(block, line)]

\* Bandit.process_results, one round of its loop for the line read: the block
\* so far is made an annotation when the line starts with dashes, and the
\* line is added to the block
BanditStep(block, line, root, cwd_) ==
    LET made == bandit_output_block_to_annotation(block, root, cwd_)
    IN IF ~StartsWith(line, Dashes[1])
       THEN [raised |-> "none", yields |-> <<>>, block |-> Append(block, line)]
       ELSE IF made.raised # "none"
       THEN [raised |-> made.raised, yields |-> <<>>, block |-> block]
       ELSE [raised |-> "none", yields |-> <<YieldAnnotation(made.value)>>, block |-> <<line>>]

(***************************************************************************)
(* tools/format.py: _DiffProcessorMixin, ISort, Black                      *)
(***************************************************************************)
\* str.split(",", 1) on the ranges of the hunk headers of the model
SplitComma(text) ==
    CASE text = "+1,4" -> <<"+1", "4">>
      [] text = "+11,3" -> <<"+11", "3">>
      [] text = "+x,3" -> <<"+x", "3">>
      [] OTHER -> <<text>>

\* _DiffProcessorMixin._diff_header_to_annotation: the Annotation of the hunk
\* header "@@ old new @@", or the exception raised; file is a path object
_diff_header_to_annotation(name, file, line, root, cwd_) ==
    LET new == SplitComma(Field(line, 3))
        made == AnnotationInit("Failed", Triple(file, SomeInt(int(new[1])), NoInt), "edit",
                               name \o " change (" \o new[2] \o " lines affected)",
                               <<>>, root, cwd_)
    IN IF Len(line) < 4 \/ Len(new) # 2 \/ ~IsInt(new[1])
       THEN [raised |-> "ValueError", value |-> <<>>]
       ELSE [raised |-> "none", value |-> [made.value EXCEPT !.diff = <<line>>]]

\* ISort._tokenise_error and Black._tokenise_error: what the call returns, or
\* the exception raised. The error line of Black is
\* "error: cannot format file: reason: line: char: context".
_tokenise_error(name, error, root, cwd_) ==
    LET made == AnnotationInit("Error",
                               Triple(RelPath(<<error[3]>>), SomeInt(int(error[5])),
                                      SomeInt(int(error[6]))),
                               "error", error[4], <<>>, root, cwd_)
    IN IF name = "ISort"
       THEN [raised |-> "none", value |-> OutputParsingError("", JoinLine(error))]
       ELSE IF Field(error, 2) # "cannot format"
       THEN [raised |-> "none",
             value |-> OutputParsingError("cannot format", JoinLine(Tail(error)))]
       ELSE IF Len(error) < 7 \/ ~IsInt(error[5]) \/ ~IsInt(error[6])
       THEN [raised |-> "ValueError", value |-> <<>>]
       ELSE [raised |-> "none", value |-> YieldAnnotation(made.value)]

\* what the generator yields for an annotation kept back, if there is one
YieldKept(kept) == IF kept.given THEN <<YieldAnnotation(kept.value)>> ELSE <<>>

\* _DiffProcessorMixin.process_diffs, one round of its loop on the lines still
\* to read: what the round yields, the exception that ends it, the annotation
\* kept back and the lines left. A "--- " line takes the two lines after it
\* as well.
DiffStep(name, last_annotation, lines, root, cwd_) ==
    LET line == Head(lines)
        error == _tokenise_error(name, line, root, cwd_)
        after_file == IF Len(lines) >= 3 THEN lines[3] ELSE <<>>
        of_file == _diff_header_to_annotation(name, RelPath(<<Field(line, 2)>>), after_file,
                                              root, cwd_)
        of_hunk == _diff_header_to_annotation(name, APath(last_annotation.value.source[1]),
                                              line, root, cwd_)
    IN IF StartsWith(line, "error:")
       THEN [raised |-> error.raised,
             yields |-> IF error.raised = "none" THEN <<error.value>> ELSE <<>>,
             last_annotation |-> last_annotation,
             rest |-> Tail(lines)]
       ELSE IF StartsWith(line, "---")
       THEN [raised |-> of_file.raised,
             yields |-> YieldKept(last_annotation),
             last_annotation |-> IF of_file.raised = "none" THEN Some(of_file.value)
                                 ELSE last_annotation,
             rest |-> SubSeq(lines, 4, Len(lines))]
       ELSE IF last_annotation.given /\ StartsWith(line, "@@")
       THEN [raised |-> of_hunk.raised,
             yields |-> YieldKept(last_annotation),
             last_annotation |-> IF of_hunk.raised = "none" THEN Some(of_hunk.value)
                                 ELSE last_annotation,
             rest |-> Tail(lines)]
       ELSE [raised |-> "none",
             yields |-> <<>>,
             last_annotation |-> IF last_annotation.given
                                 THEN Some([last_annotation.value EXCEPT
                                                !.diff = Append(@, line)])
                                 ELSE last_annotation,
             rest |-> Tail(lines)]

(***************************************************************************)
(* tools/lint.py: _PylintOutputMixin (PyLint, Flake8)                      *)
(***************************************************************************)
\* str.strip(":") on the codes of the model
StripColon(text) ==
    CASE text = "C0114:" -> "C0114"
      [] text = "E501:" -> "E501"
      [] OTHER -> text

\* Annotation.add_note
add_note(annotation, info) ==
    [annotation EXCEPT !.description =
        IF @.given THEN Some(Append(@.value, info)) ELSE Some(<<info>>)]

\* _PylintOutputMixin.process_results, one round of its loop for the line
\* read, the call of foo included: what the round yields and the annotation
\* kept in self._annotation. An issue line is "file:line:col: code message".
PylintStep(_annotation, line, root, cwd_) ==
    LET errno == AnnotationInit("Error", NoSource, StripBrackets(Field(line, 1)),
                                JoinLine(Tail(line)), <<>>, root, cwd_)
        made == AnnotationInit("Failed",
                               Triple(RelPath(<<line[1]>>), SomeInt(int(line[2])),
                                      SomeInt(int(line[3]))),
                               StripColon(line[4]), JoinLine(SubSeq(line, 5, Len(line))),
                               <<>>, root, cwd_)
    IN IF StartsWith(line, "[Errno 2]")
       THEN [yields |-> <<YieldAnnotation(errno.value)>>, _annotation |-> _annotation]
       ELSE IF line # <<>> /\ line[1] \in {"**********", "----------", "Your code has been rated"}
       THEN [yields |-> <<>>, _annotation |-> _annotation]
       ELSE IF Len(line) < 4
       THEN [yields |-> <<>>,
             _annotation |-> IF _annotation.given
                             THEN Some(add_note(_annotation.value, JoinLine(line)))
                             ELSE _annotation]
       ELSE IF ~IsInt(line[2]) \/ ~IsInt(line[3])
       THEN [yields |-> <<OutputParsingError("", JoinLine(line))>>, _annotation |-> _annotation]
       ELSE [yields |-> YieldKept(_annotation), _annotation |-> Some(made.value)]

(***************************************************************************)
(* SpecParse: process_results of a tool on a stream of output, one round   *)
(* of its loop at a time. The streams are made of up to MaxChunks pieces   *)
(* of output of the tool, well formed or not.                              *)
(***************************************************************************)
BlankLine == <<>>

\* a block of Bandit for an issue, with the dashes that end it
IssueBlock(code, location) ==
    <<<<">>", "Issue:", code, "Use of assert detected.">>,
      <<"Severity:", "Low", "Confidence:", "High">>,
      <<"CWE:", "CWE-703">>,
      <<"More Info:", "https://bandit.readthedocs.io">>,
      location,
      <<"1", "assert x">>,
      Dashes>>

BanditChunks ==
    {<<<<"Test results:">>>>,
     IssueBlock("[B101:assert_used]", <<"Location:", "a.py", "1", "0">>),
     IssueBlock("[B404:blacklist]", <<"Location:", "b.py", "2", "7">>),
     IssueBlock("[B101:assert_used]", <<"Location:", "a.py", "x", "0">>),
     <<<<"No issues identified.">>, Dashes>>,
     <<<<">>", "Issue:", "[B101:assert_used]", "Use of assert detected.">>,
       <<"Severity:", "Low", "Confidence:", "High">>, Dashes>>,
     <<<<"Code scanned:">>>>,
     <<BlankLine>>}

DiffChunks ==
    {<<<<"---", "a.py">>, <<"+++", "a.py">>, <<"@@", "-1,3", "+1,4", "@@">>>>,
     <<<<"@@", "-10,2", "+11,3", "@@">>>>,
     <<<<"@@", "-4", "+4", "@@">>>>,
     <<<<"+", "import os">>>>,
     <<<<"error:", "cannot format", "a.py", "Cannot parse", "1", "4", "x = ">>>>,
     <<<<"error:", "cannot format", "a.py", "INTERNAL ERROR", "invalid code">>>>,
     <<<<"error:", "invalid value">>>>,
     <<<<"---", "b.py">>>>,
     <<BlankLine>>}

PylintChunks ==
    {<<<<"a.py", "3", "0", "C0114:", "Missing docstring">>>>,
     <<<<"b.py", "1", "7", "E501:", "line too long">>>>,
     <<<<"a.py", "x", "0", "C0114:", "Missing docstring">>>>,
     <<<<"[Errno 2]", "No such file">>>>,
     <<<<"**********", "Module a">>>>,
     <<<<"^">>>>,
     <<BlankLine>>}

RECURSIVE Streams(_, _)
\* the streams of at most n of the chunks
Streams(chunks, n) ==
    IF n = 0 THEN {<<>>}
    ELSE LET shorter == Streams(chunks, n - 1)
         IN shorter \cup {stream \o chunk : stream \in shorter, chunk \in chunks}

\* the tools of the model and the output each may write
ParsedTools ==
    {[cls |-> "Bandit", domain |-> "Audit"], [cls |-> "ISort", domain |-> "Lint"],
     [cls |-> "ISort", domain |-> "Format"], [cls |-> "Black", domain |-> "Lint"],
     [cls |-> "PyLint", domain |-> "Lint"], [cls |-> "Flake8", domain |-> "Lint"]}

ChunksOf(tool) ==
    CASE tool.cls = "Bandit" -> BanditChunks
      [] tool.cls \in {"ISort", "Black"} -> DiffChunks
      [] OTHER -> PylintChunks

\* the tool object at the start of process_results: block and last_annotation
\* are the locals of Bandit.process_results and of process_diffs
NewParser(tool) ==
    [tool |-> tool, block |-> <<>>, last_annotation |-> NoneValue, _annotation |-> NoneValue]

InitParse ==
    /\ pc = "parse"
    /\ args = NoArgs
    /\ cwd = ProjectDir
    /\ config_file = NoConfigFile
    /\ root_dir = ProjectDir
    /\ disabled = <<>>
    /\ skip_tools = {}
    /\ skip_domains = {}
    /\ os_environ = <<>>
    /\ run_domains = <<>>
    /\ d_idx = 0
    /\ tools = <<>>
    /\ t_idx = 0
    /\ instances = {}
    /\ procs = <<>>
    /\ reporter = NewReporter
    /\ results = NewToolResults
    /\ raised = "none"
    /\ reporters = {}
    /\ log = <<>>
    /\ _CWD = cwd
    /\ created = <<>>
    /\ issues = <<>>
    /\ stdout = <<>>
    /\ fs = <<>>
    /\ gatherer = <<>>
    /\ \E tool \in ParsedTools :
          /\ parser = NewParser(tool)
          /\ data \in Streams(ChunksOf(tool), MaxChunks)
    /\ calls = <<[op |-> "process_results", data |-> data]>>
    /\ yielded = <<>>

parse_rest == <<runner_vars, reporter_vars, annotation_vars, report_vars, gather_vars, calls>>

\* Bandit.process_results: one round of the loop
BanditReadLine ==
    /\ pc = "parse"
    /\ parser.tool.cls = "Bandit"
    /\ data # <<>>
    /\ LET step == BanditStep(parser.block, Head(data), _CWD, cwd)
       IN /\ yielded' = yielded \o step.yields
          /\ parser' = [parser EXCEPT !.block = step.block]
          /\ raised' = step.raised
          /\ pc' = IF step.raised = "none" THEN "parse" ELSE "raised"
    /\ data' = Tail(data)
    /\ UNCHANGED parse_rest

\* Bandit.process_results: the end of the stream, where the last block is
\* left alone
BanditEnd ==
    /\ pc = "parse"
    /\ parser.tool.cls = "Bandit"
    /\ data = <<>>
    /\ pc' = "parsed"
    /\ UNCHANGED <<parse_rest, raised, parse_vars>>

\* whether process_results of the tool goes through process_diffs
ReadsDiffs(tool) == tool.cls = "Black" \/ (tool.cls = "ISort" /\ tool.domain # "Format")

\* process_diffs: one round of the loop
DiffReadLine ==
    /\ pc = "parse"
    /\ ReadsDiffs(parser.tool)
    /\ data # <<>>
    /\ LET step == DiffStep(parser.tool.cls, parser.last_annotation, data, _CWD, cwd)
       IN /\ yielded' = yielded \o step.yields
          /\ parser' = [parser EXCEPT !.last_annotation = step.last_annotation]
          /\ raised' = step.raised
          /\ pc' = IF step.raised = "none" THEN "parse" ELSE "raised"
          /\ data' = step.rest
    /\ UNCHANGED parse_rest

\* process_diffs: the end of the stream, where the annotation kept back is yielded
DiffEnd ==
    /\ pc = "parse"
    /\ ReadsDiffs(parser.tool)
    /\ data = <<>>
    /\ yielded' = yielded \o YieldKept(parser.last_annotation)
    /\ pc' = "parsed"
    /\ UNCHANGED <<parse_rest, raised, data, parser>>

\* ISort.process_results in the Format domain: the output is read and dropped
ISortFormat ==
    /\ pc = "parse"
    /\ parser.tool = [cls |-> "ISort", domain |-> "Format"]
    /\ data' = <<>>
    /\ pc' = "parsed"
    /\ UNCHANGED <<parse_rest, raised, parser, yielded>>

\* _PylintOutputMixin.process_results: one round of the loop
PylintReadLine ==
    /\ pc = "parse"
    /\ parser.tool.cls \in {"PyLint", "Flake8"}
    /\ data # <<>>
    /\ LET step == PylintStep(parser._annotation, Head(data), _CWD, cwd)
       IN /\ yielded' = yielded \o step.yields
          /\ parser' = [parser EXCEPT !._annotation = step._annotation]
    /\ data' = Tail(data)
    /\ UNCHANGED <<parse_rest, pc, raised>>

\* _PylintOutputMixin.process_results: the end of the stream, where the
\* annotation kept in self._annotation is yielded
PylintEnd ==
    /\ pc = "parse"
    /\ parser.tool.cls \in {"PyLint", "Flake8"}
    /\ data = <<>>
    /\ yielded' = yielded \o YieldKept(parser._annotation)
    /\ pc' = "parsed"
    /\ UNCHANGED <<parse_rest, raised, data, parser>>

NextParse ==
    \/ BanditReadLine
    \/ BanditEnd
    \/ DiffReadLine
    \/ DiffEnd
    \/ ISortFormat
    \/ PylintReadLine
    \/ PylintEnd

SpecParse == InitParse /\ [][NextParse]_vars

(***************************************************************************)
(* Properties of process_results (SpecParse).                              *)
(***************************************************************************)
\* the number of members of the sequence that are in the set
CountIn(seq, set) == Cardinality({i \in 1..Len(seq) : seq[i] \in set})

\* the annotations yielded with status ERROR
ErrorsYielded ==
    Cardinality({i \in 1..Len(yielded) :
                    yielded[i].type = "Annotation" /\ yielded[i].value.status = "Error"})

\* C19: process_results never raises on output it cannot parse, and the errors
\* a tool reports in a parsable form are yielded as annotations with status
\* ERROR: every "[Errno ...]" line of pylint and flake8, and every
\* "error: cannot format" line of black outside a diff.
C19_MalformedOutputNeverRaises ==
    /\ pc # "raised"
    /\ (pc = "parsed" /\ parser.tool.cls \in {"PyLint", "Flake8"}) =>
          ErrorsYielded = CountIn(calls[1].data, {<<"[Errno 2]", "No such file">>})
    /\ (pc = "parsed" /\ parser.tool.cls = "Black"
            /\ \A i \in 1..Len(calls[1].data) : ~StartsWith(calls[1].data[i], "---")) =>
          ErrorsYielded = Cardinality({i \in 1..Len(calls[1].data) :
                                          StartsWith(calls[1].data[i], "error:")
                                          /\ Field(calls[1].data[i], 2) = "cannot format"})

(***************************************************************************)
(* Properties of Bandit.process_results (SpecParse).                       *)
(***************************************************************************)
\* the stream given to process_results and the number of its lines read so far
Stream == calls[1].data
LinesRead == Len(Stream) - Len(data)

\* the lines of dashes read so far, by their place in the stream
DashesRead == {i \in 1..LinesRead : StartsWith(Stream[i], Dashes[1])}

\* the place of the k-th line of dashes
DashAt(k) == CHOOSE d \in DashesRead : Cardinality({i \in DashesRead : i <= d}) = k

\* the first line of the block that the line of dashes at d ends: the line of
\* dashes before it, or the first line of the stream
BlockStart(d) ==
    LET before == {i \in DashesRead : i < d}
    IN IF before = {} THEN 1 ELSE CHOOSE i \in before : \A other \in before : other <= i

\* the places of the '>> Issue' lines of the block that the line of dashes at d ends
IssueLines(d) == {j \in BlockStart(d)..(d - 1) : StartsWith(Stream[j], ">>")}

\* the place of the first of them
IssueLine(d) == CHOOSE j \in IssueLines(d) : \A other \in IssueLines(d) : j <= other

\* the block has the lines of an issue as Bandit writes them: the issue line,
\* the severity and confidence line, two more lines and the location line
\* with a line and a column
IssueBlockAt(d) ==
    /\ IssueLines(d) # {}
    /\ IssueLine(d) + 4 < d
    /\ Stream[IssueLine(d) + 1] \in {<<"Severity:", sev, "Confidence:", conf>> :
                                       sev \in {"Low", "High"}, conf \in {"Low", "High"}}
    /\ StartsWith(Stream[IssueLine(d) + 4], "Location:")
    /\ Len(Stream[IssueLine(d) + 4]) = 4
    /\ IsInt(Stream[IssueLine(d) + 4][3])
    /\ IsInt(Stream[IssueLine(d) + 4][4])

\* the block holds an issue and the item yielded is its FAILED annotation: its
\* code and message from the issue line, its file, line and column from the
\* location line
AnnotationOfBlock(item, d) ==
    LET issue == Stream[IssueLine(d)]
        location == Stream[IssueLine(d) + 4]
    IN /\ IssueBlockAt(d)
       /\ item.type = "Annotation"
       /\ item.value.status = "Failed"
       /\ item.value.code = StripBrackets(issue[3])
       /\ item.value.message = JoinLine(SubSeq(issue, 4, Len(issue)))
       /\ item.value.source = <<cwd \o <<location[2]>>, int(location[3]), int(location[4])>>

\* C22: Bandit.process_results yields one FAILED annotation for each block
\* ended by a line of dashes, in the order of the output, with the code and
\* message of the block's issue line and the file, line and column of its
\* location line; a block that holds the lines of an issue never makes it
\* raise; the lines after the last line of dashes yield nothing and raise
\* nothing.
C22_OneAnnotationPerBlock ==
    parser.tool.cls = "Bandit" =>
        /\ pc \in {"parse", "parsed"} =>
              /\ Len(yielded) = Cardinality(DashesRead)
              /\ \A k \in 1..Len(yielded) : AnnotationOfBlock(yielded[k], DashAt(k))
        /\ pc = "raised" =>
              /\ LinesRead \in DashesRead
              /\ ~IssueBlockAt(LinesRead)
              /\ Len(yielded) = Cardinality(DashesRead) - 1
        /\ pc = "parsed" => raised = "none"

\* two blocks with an issue each, after a heading or before the summary, have
\* been read to the end of the stream
C22_Witness ==
    /\ parser.tool.cls = "Bandit"
    /\ pc = "parsed"
    /\ Len(yielded) = 2
    /\ yielded[1].value.code = "B101:assert_used"
    /\ yielded[2].value.code = "B404:blacklist"
    /\ Stream[Len(Stream)] = <<"Code scanned:">>

(***************************************************************************)
(* Properties of process_diffs (SpecParse).                                *)
(***************************************************************************)
\* the places of the hunk headers and of the file headers of the stream
HunkLines == {i \in 1..Len(Stream) : StartsWith(Stream[i], "@@")}
FileLines == {i \in 1..Len(Stream) : StartsWith(Stream[i], "---")}

\* the new-file ranges of hunk headers, as difflib writes them: "start,count",
\* and "start" alone for a hunk of one line
NewRanges == {"+1,4", "+11,3", "+4"}

\* the stream is a unified diff: it begins with a file header; a file header
\* is the "---" line, the "+++" line and a hunk header; a hunk header is
\* "@@ old new @@"; every other line is a line of a hunk
UnifiedDiff ==
    /\ Stream # <<>>
    /\ 1 \in FileLines
    /\ \A i \in FileLines :
          i + 2 <= Len(Stream) /\ StartsWith(Stream[i + 1], "+++") /\ (i + 2) \in HunkLines
    /\ \A i \in HunkLines : Len(Stream[i]) = 4 /\ Stream[i][4] = "@@" /\ Stream[i][3] \in NewRanges
    /\ \A i \in 1..Len(Stream) :
          \/ i \in FileLines \cup HunkLines
          \/ Stream[i] = BlankLine
          \/ StartsWith(Stream[i], "+++") /\ (i - 1) \in FileLines
          \/ Stream[i][1] \in {"+", "-", " "}

\* the place of the k-th hunk header
HunkAt(k) == CHOOSE h \in HunkLines : Cardinality({i \in HunkLines : i <= h}) = k

\* the place of the last line of the hunk: the line before the next header,
\* or the last line of the stream
HunkEnd(h) ==
    LET later == {i \in FileLines \cup HunkLines : i > h}
    IN IF later = {} THEN Len(Stream)
       ELSE (CHOOSE i \in later : \A other \in later : i <= other) - 1

\* the file of the hunk: that of the last file header before it
HunkFile(h) ==
    LET before == {i \in FileLines : i < h}
    IN Stream[CHOOSE i \in before : \A other \in before : other <= i][2]

\* the start row of the new-file range of the hunk header
HunkRow(h) == int(SplitComma(Stream[h][3])[1])

\* C24: on a unified diff, process_diffs of ISort and Black raises nothing and
\* yields one FAILED annotation for each '@@' hunk, in the order of the diff,
\* with the file of the last '--- ' header before the hunk, the start row of
\* the new-file range of the hunk, and as its diff the lines from the hunk
\* header up to the next header.
C24_OneAnnotationPerHunk ==
    (pc \in {"parse", "parsed", "raised"} /\ ReadsDiffs(parser.tool) /\ UnifiedDiff) =>
        /\ pc # "raised"
        /\ pc = "parsed" =>
              /\ Len(yielded) = Cardinality(HunkLines)
              /\ \A k \in 1..Len(yielded) :
                    /\ yielded[k].type = "Annotation"
                    /\ yielded[k].value.status = "Failed"
                    /\ yielded[k].value.source =
                           <<cwd \o <<HunkFile(HunkAt(k))>>, HunkRow(HunkAt(k)), 0>>
                    /\ yielded[k].value.diff = SubSeq(Stream, HunkAt(k), HunkEnd(HunkAt(k)))

(***************************************************************************)
(* reporting/console.py: ConsoleReporter                                   *)
(***************************************************************************)
\* bool() of a member of Status: enum.Enum defines no __bool__ or __len__ for
\* its members and neither does Status, so every member is true
StatusBool(status) == status \in Range(Status)

\* ConsoleReporter.format_result_str: the line of a tool, piece by piece
format_result_str(domain, proc_name, success) ==
    <<"[", IF StatusBool(success) THEN "PASS" ELSE "FAIL", "]", domain, "::", proc_name>>

\* ConsoleReporter.summarise: what is written to sys.stdout, line by line;
\* keys are the keys of results.results in the order of the dict
ConsoleSummary(rs, keys) ==
    <<<<"Summary">>>>
        \o [i \in 1..Len(keys) |->
              format_result_str(keys[i].domain, keys[i].cls, rs.results[keys[i]].success)]
        \o <<IF rs.success THEN <<"Congratulations!", "Proceed to Upload">>
             ELSE <<"Bad news!", "At least one failure!">>>>

(***************************************************************************)
(* SpecConsole: results are recorded as in SpecRecord, then the summary of *)
(* the ConsoleReporter is written.                                         *)
(***************************************************************************)
\* the tools recorded, in the order of their first record call
RecordedTools == [i \in 1..Len(calls) |-> calls[i].tool]

\* ConsoleReporter.summarise(results)
SummariseConsole ==
    /\ pc = "results"
    /\ stdout' = ConsoleSummary(results, RecordedTools)
    /\ pc' = "summarised"
    /\ UNCHANGED <<runner_vars, calls, raised, reporter_vars, annotation_vars, issues,
                   gather_vars, parse_vars>>

NextConsole ==
    \/ NextRecord
    \/ SummariseConsole

SpecConsole == InitRecord /\ [][NextConsole]_vars

(***************************************************************************)
(* Properties of ConsoleReporter.summarise (SpecConsole).                  *)
(***************************************************************************)
\* the lines of the tools in the summary written
ToolLines == [i \in 1..Len(RecordedTools) |-> stdout[i + 1]]

\* C25: in the summary the line of a tool shows PASS exactly when the status of
\* the tool's ToolResult is below FAILED and FAIL otherwise, and the verdict is
\* 'At least one failure!' exactly when the line of some tool shows FAIL.
C25_SummaryMatchesResults ==
    pc = "summarised" =>
        /\ \A i \in 1..Len(ToolLines) :
              /\ ToolLines[i][2] \in {"PASS", "FAIL"}
              /\ ToolLines[i][2] = "PASS" <=>
                     StatusLt(results.results[RecordedTools[i]].success, "Failed")
        /\ stdout[Len(stdout)][2] = "At least one failure!" <=>
               \E i \in 1..Len(ToolLines) : ToolLines[i][2] = "FAIL"

(***************************************************************************)
(* SpecRun: one call of ToolRunner.run on a tool, await by await: the      *)
(* subprocess is created, the report streams are started, the subprocess   *)
(* is waited for, the report streams are closed, run returns. Every await  *)
(* may end with an exception; the task that awaits run may be cancelled    *)
(* while it waits for the subprocess.                                      *)
(***************************************************************************)
\* the exceptions asyncio.wait_for(process.wait(), timeout) ends with, the
\* cancellation of the task included
RunWaitExceptions == WaitExceptions \cup {"CancelledError"}

\* whether `except TimeoutError` or `except Exception` catches the exception:
\* CancelledError derives from BaseException, not from Exception
Caught(exc) == exc # "CancelledError"

InitRun ==
    /\ pc = "run"
    /\ args = NoArgs
    /\ cwd = ProjectDir
    /\ config_file = NoConfigFile
    /\ root_dir = ProjectDir
    /\ disabled = <<>>
    /\ skip_tools = {}
    /\ skip_domains = {}
    /\ os_environ \in {PlainEnviron, MyPyEnviron}
    /\ run_domains \in {<<domain>> : domain \in Range(ToolDomain)}
    /\ d_idx = 1
    /\ tools = gather_tools(run_domains[1], skip_tools, 1).tools
    /\ t_idx \in 1..Len(tools)
    /\ instances = Range(tools)
    /\ procs = <<>>
    /\ reporter = NewReporter
    /\ results = NewToolResults
    /\ calls = <<>>
    /\ raised = "none"
    /\ AuxInit

run_rest == <<config_vars, os_environ, loop_vars, instances, results, aux_vars>>

\* run line 92-104: the report instance, the environment and the subprocess
\* created; streams tells whether the report streams are open
RunCreate ==
    /\ pc = "run"
    /\ reporter' = NewReporter
    /\ procs' = Append(procs,
           [tool |-> CurrentTool,
            env |-> SubprocessEnv(get_environment(CurrentTool), os_environ),
            state |-> "running",
            returncode |-> NoneValue,
            caught |-> "none",
            streamed |-> <<>>,
            streams |-> "new"])
    /\ pc' = "start"
    /\ UNCHANGED <<run_rest, calls, raised>>

\* run line 92-104: create_subprocess_exec raises, the program is not found
RunCreateRaises ==
    /\ pc = "run"
    /\ reporter' = NewReporter
    /\ raised' = "FileNotFoundError"
    /\ pc' = "raised"
    /\ UNCHANGED <<run_rest, procs, calls>>

\* run line 113: the report streams are started
RunStart ==
    /\ pc = "start"
    /\ procs' = [procs EXCEPT ![Len(procs)].streams = "open"]
    /\ pc' = "waiting"
    /\ UNCHANGED <<run_rest, reporter, calls, raised>>

\* run line 113: starting the report streams raises; the body of the
\* `async with` is not entered and the exception leaves run
RunStartRaises(exc) ==
    /\ pc = "start"
    /\ procs' = [procs EXCEPT ![Len(procs)].streams = "failed"]
    /\ raised' = exc
    /\ pc' = "raised"
    /\ UNCHANGED <<run_rest, reporter, calls>>

\* run line 116: the subprocess ends within the timeout and wait() returns
RunExit(code) ==
    /\ pc = "waiting"
    /\ procs' = [procs EXCEPT ![Len(procs)].state = "reaped",
                              ![Len(procs)].returncode = Some(code)]
    /\ pc' = "closing"
    /\ UNCHANGED <<run_rest, reporter, calls, raised>>

\* run line 116-127: the wait ends with an exception; a handler that catches
\* it kills the subprocess, an exception that no handler catches leaves the
\* `async with`
RunWaitRaises(exc) ==
    /\ pc = "waiting"
    /\ IF Caught(exc)
       THEN /\ procs' = [procs EXCEPT ![Len(procs)].state = "killed",
                                      ![Len(procs)].caught = exc]
            /\ pc' = "killed"
            /\ UNCHANGED raised
       ELSE /\ raised' = exc
            /\ pc' = "closing"
            /\ UNCHANGED procs
    /\ UNCHANGED <<run_rest, reporter, calls>>

\* run line 122 and 126-127: the killed subprocess is awaited and the handler
\* ends, the second by raising what it caught
RunAwaitKilled(code) ==
    /\ pc = "killed"
    /\ procs' = [procs EXCEPT ![Len(procs)].state = "reaped",
                              ![Len(procs)].returncode = Some(code)]
    /\ raised' = IF Reraised(LastProc.caught) THEN LastProc.caught ELSE raised
    /\ pc' = "closing"
    /\ UNCHANGED <<run_rest, reporter, calls>>

\* run line 122 and 126: the task is cancelled while the handler awaits the
\* killed subprocess
RunAwaitCancelled ==
    /\ pc = "killed"
    /\ raised' = "CancelledError"
    /\ pc' = "closing"
    /\ UNCHANGED <<run_rest, procs, reporter, calls>>

\* run line 113: the report streams are closed at the end of the `async with`;
\* an exception on its way out goes on, otherwise run goes on to return
RunClose ==
    /\ pc = "closing"
    /\ procs' = [procs EXCEPT ![Len(procs)].streams = "closed"]
    /\ pc' = IF raised = "none" THEN "return" ELSE "raised"
    /\ UNCHANGED <<run_rest, reporter, calls, raised>>

\* run line 113: closing the report streams raises
RunCloseRaises(exc) ==
    /\ pc = "closing"
    /\ procs' = [procs EXCEPT ![Len(procs)].streams = "failed"]
    /\ raised' = exc
    /\ pc' = "raised"
    /\ UNCHANGED <<run_rest, reporter, calls>>

\* run line 129-132: run returns
RunReturn ==
    /\ pc = "return"
    /\ calls' = Append(calls, [tool |-> CurrentTool,
                               annotations |-> reporter.annotations,
                               exceptions |-> reporter.exceptions,
                               exit_code |-> ReturnCode(LastProc.returncode)])
    /\ pc' = "returned"
    /\ UNCHANGED <<run_rest, procs, reporter, raised>>

NextRun ==
    \/ RunCreate
    \/ RunCreateRaises
    \/ RunStart
    \/ RunStartRaises("OSError")
    \/ \E a \in StreamedAnnotations : StreamAnnotation(a)
    \/ \E e \in StreamedExceptions : StreamException(e)
    \/ \E code \in ExitCodes : RunExit(code)
    \/ \E exc \in RunWaitExceptions : RunWaitRaises(exc)
    \/ \E code \in KillReturnCodes : RunAwaitKilled(code)
    \/ RunAwaitCancelled
    \/ RunClose
    \/ RunCloseRaises("OSError")
    \/ RunReturn

SpecRun == InitRun /\ [][NextRun]_vars

(***************************************************************************)
(* Properties of ToolRunner.run (SpecRun).                                 *)
(***************************************************************************)
\* C23: when run has returned, or an exception has left it after the
\* subprocess was created, the subprocess has terminated and has been waited
\* for.
C23_NoSubprocessOutlivesRun ==
    (pc \in {"returned", "raised"} /\ procs # <<>>) => LastProc.state = "reaped"

====
